---- MODULE Spec2Model ----
(***************************************************************************)
(* audb-server: the per-device connection pool (pool.rs), its workers and  *)
(* the socket server's client handlers (socket_server.rs).                 *)
(*                                                                         *)
(* Option<T> is a sequence of length at most one: <<>> is None, <<x>> is   *)
(* Some(x).  Instants are milliseconds since the daemon started.           *)
(***************************************************************************)
EXTENDS Integers, Sequences, FiniteSets, TLC

\* ------------------------------------------------------------------ bounds

\* Frames all clients together send in one behaviour.
MaxReqs == 2
\* Times the clock advances in one behaviour.
MaxTicks == 1
\* Frames the two clients of SpecOrder send together.
OrderReqs == 2
\* Frames the client of SpecRetries sends.
RetryReqs == 7
\* Frames the two clients of SpecReplies send together.
ReplyReqs == 2
\* Frames the two clients of SpecServer send together.
ServerReqs == 2
\* Requests sent in the scenario of the unknown host.
UnknownReqs == 2
\* Install requests sent in the scenario of the installs.
InstallReqs == 2
\* Requests sent in the scenario of the temp directory.
TempReqs == 2
\* Requests sent in the scenario of the scripts of two devices.
ScriptReqs == 2
\* Requests sent in the scenario of the status of a reconnecting device.
StatusReqs == 3
\* Requests sent in the scenario of the shutdown.
ShutdownReqs == 2
\* Frames written on the stream of the framing.
WireFrames == 2
\* Requests a client sends in the argument-validation scenario.
ValidateReqs == 1
\* Requests a client sends in the scenario of a worker that stops.
GoneReqs == 2
\* Requests a client sends in the scenario of commands that exit non-zero.
ExitReqs == 2
\* Requests a client sends to the device without a root password.
RootReqs == 2
\* Requests a client sends in the scenario of a disabled device.
DisabledReqs == 2
\* The longest argument of a shell command line.
EscapeLen == 2
ClassifyLen == 2
PingReqs == 3
LogsReqs == 1
JournalLen == 1

\* ------------------------------------------------------- program constants

INITIAL_BACKOFF_MS == 1000
MAX_BACKOFF_MS == 60000
BACKOFF_MULTIPLIER == 2
HEALTH_CHECK_INTERVAL == 60000
CHANNEL_CAPACITY == 100

\* A step of the model's clock, in milliseconds: the health-check interval, or
\* just over it.
TickSteps == {HEALTH_CHECK_INTERVAL, HEALTH_CHECK_INTERVAL + 1}

None == <<>>
Some(x) == <<x>>
IsSome(o) == o # <<>>
Unwrap(o) == o[1]

\* ----------------------------------------------------------------- strings

\* The characters of the strings the model inspects (TLA+ strings are atomic).
Chars ==
  [ s \in { "connection", "disconnect", "timeout", "broken pipe",
            "reset by peer", "channel", "session", "eof", "closed",
            "Connection error: refused", "Broken pipe", "command not found",
            "Permission denied", "EOF", "not found", "Device X not found",
            "Coordinates out of range: ({}, {}). Max: 4096x4096",
            "Coordinate out of range: {}. Max: 4096",
            "App name cannot be empty",
            "Invalid app name: '{}'. Expected D-Bus format: ru.domain.AppName",
            "Package name cannot be empty",
            "Clearing logs requires --force flag",
            "out of range",
            "X",
            "Device {} command queue closed",
            "Command failed with exit code {}",
            "Device {} command processor died",
            "Lines count must be greater than 0",
            "No such file or directory",
            "Failed to read downloaded file: {}",
            "Cannot specify both --kernel and --unit",
            "Root password not configured. Use 'audb device add' to set the root password." } |->
    CASE s = "connection" -> <<"c","o","n","n","e","c","t","i","o","n">>
      [] s = "disconnect" -> <<"d","i","s","c","o","n","n","e","c","t">>
      [] s = "timeout" -> <<"t","i","m","e","o","u","t">>
      [] s = "broken pipe" -> <<"b","r","o","k","e","n"," ","p","i","p","e">>
      [] s = "reset by peer" -> <<"r","e","s","e","t"," ","b","y"," ","p","e","e","r">>
      [] s = "channel" -> <<"c","h","a","n","n","e","l">>
      [] s = "session" -> <<"s","e","s","s","i","o","n">>
      [] s = "eof" -> <<"e","o","f">>
      [] s = "closed" -> <<"c","l","o","s","e","d">>
      [] s = "Connection error: refused" ->
           <<"C","o","n","n","e","c","t","i","o","n"," ","e","r","r","o","r",":"," ",
             "r","e","f","u","s","e","d">>
      [] s = "Broken pipe" -> <<"B","r","o","k","e","n"," ","p","i","p","e">>
      [] s = "command not found" ->
           <<"c","o","m","m","a","n","d"," ","n","o","t"," ","f","o","u","n","d">>
      [] s = "Permission denied" ->
           <<"P","e","r","m","i","s","s","i","o","n"," ","d","e","n","i","e","d">>
      [] s = "EOF" -> <<"E","O","F">>
      [] s = "not found" -> <<"n","o","t"," ","f","o","u","n","d">>
      [] s = "Device X not found" ->
           <<"D","e","v","i","c","e"," ","X"," ","n","o","t"," ","f","o","u","n","d">>
      [] s = "Coordinates out of range: ({}, {}). Max: 4096x4096" ->
           <<"C","o","o","r","d","i","n","a","t","e","s"," ","o","u","t"," ","o","f",
             " ","r","a","n","g","e",":"," ","(","{","}",","," ","{","}",")","."," ",
             "M","a","x",":"," ","4","0","9","6","x","4","0","9","6">>
      [] s = "Coordinate out of range: {}. Max: 4096" ->
           <<"C","o","o","r","d","i","n","a","t","e"," ","o","u","t"," ","o","f"," ",
             "r","a","n","g","e",":"," ","{","}","."," ","M","a","x",":"," ","4","0",
             "9","6">>
      [] s = "App name cannot be empty" ->
           <<"A","p","p"," ","n","a","m","e"," ","c","a","n","n","o","t"," ","b","e",
             " ","e","m","p","t","y">>
      [] s = "Invalid app name: '{}'. Expected D-Bus format: ru.domain.AppName" ->
           <<"I","n","v","a","l","i","d"," ","a","p","p"," ","n","a","m","e",":"," ",
             "'","{","}","'","."," ","E","x","p","e","c","t","e","d"," ","D","-","B",
             "u","s"," ","f","o","r","m","a","t",":"," ","r","u",".","d","o","m","a",
             "i","n",".","A","p","p","N","a","m","e">>
      [] s = "Package name cannot be empty" ->
           <<"P","a","c","k","a","g","e"," ","n","a","m","e"," ","c","a","n","n","o",
             "t"," ","b","e"," ","e","m","p","t","y">>
      [] s = "Clearing logs requires --force flag" ->
           <<"C","l","e","a","r","i","n","g"," ","l","o","g","s"," ","r","e","q","u",
             "i","r","e","s"," ","-","-","f","o","r","c","e"," ","f","l","a","g">>
      [] s = "out of range" ->
           <<"o","u","t"," ","o","f"," ","r","a","n","g","e">>
      [] s = "X" ->
           <<"X">>
      [] s = "Command failed with exit code {}" ->
           <<"C","o","m","m","a","n","d"," ","f","a","i","l","e","d"," ","w","i","t","h",
             " ","e","x","i","t"," ","c","o","d","e"," ","{","}">>
      [] s = "Device {} command queue closed" ->
           <<"D","e","v","i","c","e"," ","{","}"," ","c","o","m","m","a","n","d"," ",
             "q","u","e","u","e"," ","c","l","o","s","e","d">>
      [] s = "Device {} command processor died" ->
           <<"D","e","v","i","c","e"," ","{","}"," ","c","o","m","m","a","n","d"," ",
             "p","r","o","c","e","s","s","o","r"," ","d","i","e","d">>
      [] s = "No such file or directory" ->
           <<"N","o"," ","s","u","c","h"," ","f","i","l","e"," ","o","r"," ","d","i","r","e","c","t","o","r","y">>
      [] s = "Failed to read downloaded file: {}" ->
           <<"F","a","i","l","e","d"," ","t","o"," ","r","e","a","d"," ","d","o","w","n","l","o","a","d","e","d"," ","f","i","l","e",":"," ","{","}">>
      [] s = "Lines count must be greater than 0" ->
           <<"L","i","n","e","s"," ","c","o","u","n","t"," ","m","u","s","t"," ","b","e"," ","g","r","e","a","t","e","r"," ","t","h","a","n"," ","0">>
      [] s = "Cannot specify both --kernel and --unit" ->
           <<"C","a","n","n","o","t"," ","s","p","e","c","i","f","y"," ","b","o","t","h"," ","-","-","k","e","r","n","e","l"," ","a","n","d"," ","-","-","u","n","i","t">>
      [] OTHER ->
           <<"R","o","o","t"," ","p","a","s","s","w","o","r","d"," ","n","o","t"," ",
             "c","o","n","f","i","g","u","r","e","d","."," ","U","s","e"," ","'",
             "a","u","d","b"," ","d","e","v","i","c","e"," ","a","d","d","'"," ",
             "t","o"," ","s","e","t"," ","t","h","e"," ","r","o","o","t"," ",
             "p","a","s","s","w","o","r","d",".">> ]

UpperCase == <<"A","B","C","D","E","F","G","H","I","J","K","L","M",
               "N","O","P","Q","R","S","T","U","V","W","X","Y","Z">>
LowerCase == <<"a","b","c","d","e","f","g","h","i","j","k","l","m",
               "n","o","p","q","r","s","t","u","v","w","x","y","z">>

\* char::to_lowercase on the ASCII letters
LowerChar(c) ==
  IF \E i \in 1..26 : UpperCase[i] = c
  THEN LowerCase[CHOOSE i \in 1..26 : UpperCase[i] = c]
  ELSE c

to_lowercase(cs) == [i \in 1..Len(cs) |-> LowerChar(cs[i])]

\* str::contains
contains(hay, needle) ==
  \E i \in 0..(Len(hay) - Len(needle)) :
    \A j \in 1..Len(needle) : hay[i + j] = needle[j]

connection_error_patterns ==
  { "connection", "disconnect", "timeout", "broken pipe", "reset by peer",
    "channel", "session", "eof", "closed" }

is_connection_error_never(error) == FALSE
is_connection_error_exact_case(text) ==
  \E pattern \in connection_error_patterns : contains(text, Chars[pattern])
\* is_connection_error on the characters of a message
is_connection_error_text(text) ==
  LET error_lower == to_lowercase(text)
  IN  \E pattern \in connection_error_patterns : contains(error_lower, Chars[pattern])
is_connection_error(error) == is_connection_error_text(Chars[error])

\* ------------------------------------------------------------ configuration

\* DeviceStore::list_enabled(): the enabled devices, unique by host.
\* Device B has no root password (Device::root_password defaults to "").
Devices ==
  [ h \in {"A", "B"} |->
      IF h = "A" THEN [host |-> "A", root_password |-> "pw"]
                 ELSE [host |-> "B", root_password |-> ""] ]
Hosts == DOMAIN Devices
\* A host no device of the configuration has.
UnknownHost == "X"

\* Client connections the listener may accept.
Clients == {"c1", "c2"}

ScriptNames == {"tap"}

\* Errors the transport may return.
ConnectErrors == {"Connection error: refused"}
ExecErrors == {"Broken pipe", "command not found"}

\* What a command leaves on its channel: the lines of stdout and of stderr
\* and its exit status.  The outputs of the model have one line at most.
Exit(code, stdout, stderr) == [code |-> code, stdout |-> stdout, stderr |-> stderr]
Exits ==
  { Exit(127, << >>, << "command not found" >>),
    Exit(1, << "Permission denied" >>, << >>),
    Exit(2, << "Permission denied" >>, << "command not found" >>),
    Exit(1, << >>, << >>) }

\* [String]::join("\n") of one line
join(lines) == lines[1]

\* ssh.rs 218-230: the message of the error _exec returns for a status that
\* is not 0.
error_msg_stdout_first(exit) ==
  IF exit.stdout # << >> THEN join(exit.stdout)
  ELSE IF exit.stderr # << >> THEN join(exit.stderr)
  ELSE "Command failed with exit code {}"
error_msg(exit) ==
  IF exit.stderr # << >> THEN join(exit.stderr)
  ELSE IF exit.stdout # << >> THEN join(exit.stdout)
  ELSE "Command failed with exit code {}"
SftpErrors == {"Permission denied"}
RootPasswordError ==
  "Root password not configured. Use 'audb device add' to set the root password."

\* DeviceOperation
Op(kind, command, as_root, script_name, local_path, remote_path) ==
  [kind |-> kind, command |-> command, as_root |-> as_root, script_name |-> script_name,
   local_path |-> local_path, remote_path |-> remote_path]
OpCommand(command, as_root) == Op("Command", command, as_root, "", "", "")
OpEnsureScript(script_name) == Op("EnsureScript", "", FALSE, script_name, "", "")
OpUpload(local_path, remote_path) == Op("Upload", "", FALSE, "", local_path, remote_path)
OpDownload(remote_path, local_path) == Op("Download", "", FALSE, "", local_path, remote_path)

\* The largest coordinate execute_tap and execute_swipe accept.
MAX_COORD == 4096
\* The limit of validate_app_name on the length of a name.
MAX_APP_NAME == 255

\* App and package names, as their characters.
DottedName(n) == [i \in 1..n |-> IF i = 3 THEN "." ELSE "a"]
AppNames ==
  { <<>>, <<"a">>, <<".">>, <<"a", "p", "p">>, <<"r", "u", ".", "a">>,
    DottedName(MAX_APP_NAME), DottedName(MAX_APP_NAME + 1),
    [i \in 1..(MAX_APP_NAME + 1) |-> "a"] }

\* A Command of the wire protocol; the fields a variant does not have keep
\* these values.
Cmd(name, device) ==
  [name |-> name, device |-> device, root |-> FALSE, x |-> 0, y |-> 0, x2 |-> 0,
   y2 |-> 0, mode |-> "", app |-> <<>>, key |-> "", clear |-> FALSE, force |-> FALSE,
   path |-> "", lines |-> 100, kernel |-> FALSE, unit |-> None]

\* Command variants of the wire protocol the model's clients send.
Commands ==
  { Cmd("Ping", ""), Cmd("ServerStatus", "") }
  \cup { Cmd("Shell", h) : h \in Hosts \cup {UnknownHost} }
  \cup { [Cmd("Shell", "B") EXCEPT !.root = TRUE] }
  \cup { [Cmd("Tap", "A") EXCEPT !.root = TRUE] }

\* KillServer requests.
KillCommands == { Cmd("KillServer", "") }

\* Coordinates at and around the limit.
Coords == {0, MAX_COORD, MAX_COORD + 1, 65535}
\* Tap and Swipe requests.
GestureCommands ==
  { [Cmd("Tap", "A") EXCEPT !.x = x, !.y = y] : x \in Coords, y \in {0, MAX_COORD, MAX_COORD + 1} }
  \cup { [Cmd("Swipe", "A") EXCEPT !.mode = "Coords", !.x = c, !.y = 0, !.x2 = 0, !.y2 = 0] :
           c \in Coords }
  \cup { [Cmd("Swipe", "A") EXCEPT !.mode = "Coords", !.x = 0, !.y = c, !.x2 = 0, !.y2 = 0] :
           c \in Coords }
  \cup { [Cmd("Swipe", "A") EXCEPT !.mode = "Coords", !.x = 0, !.y = 0, !.x2 = c, !.y2 = 0] :
           c \in Coords }
  \cup { [Cmd("Swipe", "A") EXCEPT !.mode = "Coords", !.x = 0, !.y = 0, !.x2 = 0, !.y2 = c] :
           c \in Coords }
  \cup { [Cmd("Swipe", "A") EXCEPT !.mode = "Direction"] }

\* Uninstall, Launch and Stop requests.
AppCommands ==
  { [Cmd(n, "A") EXCEPT !.app = a] : n \in {"Uninstall", "Launch", "Stop"}, a \in AppNames }

\* Logs requests with valid lines, kernel and unit.
LogsCommands ==
  { [Cmd("Logs", "A") EXCEPT !.clear = cl, !.force = f] : cl \in BOOLEAN, f \in BOOLEAN }

\* Logs requests with lines at and around 0, with and without kernel and unit.
LogsArgCommands ==
  { [Cmd("Logs", "A") EXCEPT !.lines = n, !.kernel = k, !.unit = u, !.clear = cl, !.force = f] :
      n \in {0, 1, 100}, k \in BOOLEAN, u \in {None, Some(<< "a" >>)},
      cl \in BOOLEAN, f \in BOOLEAN }

\* Install requests.
InstallCommands ==
  { [Cmd("Install", "A") EXCEPT !.path = p] : p \in {"/build/app.rpm", "/build/lib.rpm"} }

\* One request of every device-targeting variant, with valid arguments.
DeviceCommandsOf(h) ==
  { Cmd("Shell", h), [Cmd("Install", h) EXCEPT !.path = "/build/app.rpm"],
    [Cmd("Uninstall", h) EXCEPT !.app = <<"r", "u", ".", "a">>],
    Cmd("Packages", h),
    [Cmd("Push", h) EXCEPT !.path = "/build/app.rpm"],
    [Cmd("Pull", h) EXCEPT !.path = "/home/defaultuser/Downloads/app.rpm"],
    Cmd("Info", h),
    [Cmd("Tap", h) EXCEPT !.x = MAX_COORD, !.y = MAX_COORD],
    [Cmd("Swipe", h) EXCEPT !.mode = "Direction"],
    [Cmd("Key", h) EXCEPT !.key = "home"],
    [Cmd("Key", h) EXCEPT !.key = "power"],
    Cmd("Screenshot", h),
    [Cmd("Launch", h) EXCEPT !.app = <<"r", "u", ".", "a">>],
    [Cmd("Stop", h) EXCEPT !.app = <<"r", "u", ".", "a">>],
    Cmd("Logs", h),
    Cmd("Open", h) }

\* Result<T>
Ok(v) == [ok |-> TRUE, value |-> v, error |-> ""]
Err(e) == [ok |-> FALSE, value |-> "", error |-> e]

\* -------------------------------------------------------------------- state

VARIABLES
  cfg,               \* the scenario: devices, clients, commands, errors, limits
  now,               \* the clock: milliseconds since the daemon started
  sent,              \* frames the clients have sent so far
  server,            \* "starting", "listening", "stopped"
  registered,        \* hosts in the pool's maps (connections, command_queues)
  connections,       \* host -> DeviceConnection (state, stats), the shared map
  lock,              \* holder of the connections mutex: "free" or a worker's host
  queue,             \* host -> the worker's mpsc channel
  wpc,               \* host -> the worker's position
  cur,               \* host -> Option<DeviceCommandRequest> being processed
  session,           \* host -> Option<session id>
  connected_since,   \* host -> Option<Instant>
  last_health_check, \* host -> Option<Instant>
  current_backoff_ms,\* host -> u64
  uploaded_scripts,  \* host -> set of script names
  result,            \* host -> Option<Result> of connect or of the operation
  next_retry,        \* host -> Option<Instant>: the worker's local next_retry
  live,              \* host -> ids of the transport sessions that exist
  inbox,             \* client -> frames sent and not yet read by the handler
  hpc,               \* client -> the handler's position
  hreq,              \* client -> Option<Request> being processed
  hstep,             \* client -> step of the command's recipe
  hstatus,           \* client -> the ServerStatus being assembled
  reply,             \* client -> Option<Result>: the oneshot reply channel
  recvd,             \* client -> the Requests received, in order
  outbox,            \* client -> Responses written, in order
  houtput,           \* client -> the outputs the running recipe has kept
  socket_file,       \* whether the socket file exists
  shutdown_signal,   \* messages in the shutdown channel
  signals,           \* the signal task: "waiting" or "done"
  wire,              \* a byte stream of the framing and what was read from it
  built,             \* arguments of shell commands and the command lines built from them
  temp,              \* the files of the temp directory and what the transfers carried
  hist               \* host -> what the worker did, for the properties

vars ==
  << cfg, now, sent, server, registered, connections, lock, queue, wpc, cur,
     session, connected_since, last_health_check, current_backoff_ms,
     uploaded_scripts, result, next_retry, live, inbox, hpc, hreq, hstep, hstatus, reply,
     recvd, outbox, houtput, socket_file, shutdown_signal, signals, wire, built, temp,
     hist >>

workerVars ==
  << wpc, cur, session, connected_since, last_health_check, current_backoff_ms,
     uploaded_scripts, result, next_retry >>
clientVars == << inbox, hpc, hreq, hstep, hstatus, houtput, recvd, outbox >>
listenerVars == << socket_file, shutdown_signal, signals >>

\* ConnectionState
Disconnected == [tag |-> "Disconnected"]
Connecting(attempt, retry) ==
  [tag |-> "Connecting", attempt |-> attempt, next_retry |-> retry]
Connected(since) == [tag |-> "Connected", since |-> since]
Errored(error, retry) ==
  [tag |-> "Errored", error |-> error, next_retry |-> retry]

\* ConnectionStats::default()
DefaultStats ==
  [connect_attempts |-> 0, successful_commands |-> 0, failed_commands |-> 0,
   last_error |-> None]

\* DeviceConnection::new
NewDeviceConnection(h) ==
  [device |-> Devices[h], state |-> Disconnected, stats |-> DefaultStats]

\* What the properties read of a worker's past.
NewHist ==
  [enqueued |-> 0,        \* requests sent into the channel
   dequeued |-> 0,        \* requests received from the channel
   replies |-> 0,         \* response_tx.send calls
   dropped |-> 0,         \* of these, to a receiver that was gone
   fails |-> 0,           \* consecutive failed connects
   stat_checks |-> 0,     \* stat checks issued in the current Session
   ensured |-> 0,         \* stat checks of the current Session that ended in ScriptOk
   memo_hits |-> 0,       \* EnsureScript of the current Session answered from the memo
   failed_at |-> 0,       \* when the last failed connect was recorded
   lost |-> 0,            \* Sessions lost
   cold |-> FALSE,        \* the request in hand was received without a Session
   attempts |-> 0]        \* connects attempted for the request in hand

\* No command line was built.
NoBuilt ==
  [password |-> <<>>, command |-> <<>>, unit |-> <<>>, since |-> <<>>, grep |-> <<>>,
   devel_su |-> <<>>, journalctl |-> <<>>, error |-> <<>>, is_connection |-> <<>>,
   kernel |-> FALSE, lines |-> 100, priority |-> <<>>]

\* std::env::temp_dir(): the local files the daemon writes, by path.
TempPaths == {"/tmp/app.rpm", "/tmp/lib.rpm", "/tmp/audb_tap.py", "/tmp/audb_swipe.py"}
\* An empty temp directory; no transfer was made.
NoTemp ==
  [files |-> [p \in TempPaths |-> <<>>],  \* path -> Option<the bytes of the file>
   uploads |-> {},                        \* the bytes each Upload sent, with the request it served
   pulls |-> {},                          \* the bytes each Pull returned, with the request it served
   missing |-> {},                        \* requests that found their file gone
   gone |-> {}]                           \* workers whose EnsureScript found its file gone

\* The request the handler of connection c is processing: the n-th it
\* received.  Its bytes (the data of a Push or an Install, the file a Pull
\* fetches) are named after it.
RequestOf(c) == [client |-> c, n |-> Len(recvd[c])]

\* execute_operation 485-486: the local temp file of a script, named after
\* the file name of its remote path, and the content written to it.
script_temp(script_name) ==
  CASE script_name = "tap" -> "/tmp/audb_tap.py"
    [] script_name = "swipe" -> "/tmp/audb_swipe.py"
script_content(script_name) == [client |-> script_name, n |-> 0]

\* std::fs::write, std::fs::remove_file
write(files, path, bytes) == [files EXCEPT ![path] = Some(bytes)]
remove_file(files, path) == [files EXCEPT ![path] = None]

\* A stream of the framing nothing was written to.
NoWire ==
  [msgs |-> <<>>, stream |-> <<>>, sent |-> 0, out |-> <<>>, closed |-> FALSE,
   responses |-> 0]

InitCore(scn) ==
  /\ cfg = scn
  /\ temp = NoTemp
  /\ now = 0
  /\ sent = 0
  /\ server = "starting"
  /\ registered = {}
  /\ connections = [h \in {} |-> NewDeviceConnection(h)]
  /\ lock = "free"
  /\ queue = [h \in Hosts |-> <<>>]
  /\ wpc = [h \in Hosts |-> "none"]
  /\ cur = [h \in Hosts |-> None]
  /\ session = [h \in Hosts |-> None]
  /\ connected_since = [h \in Hosts |-> None]
  /\ last_health_check = [h \in Hosts |-> None]
  /\ current_backoff_ms = [h \in Hosts |-> INITIAL_BACKOFF_MS]
  /\ uploaded_scripts = [h \in Hosts |-> {}]
  /\ result = [h \in Hosts |-> None]
  /\ next_retry = [h \in Hosts |-> None]
  /\ live = [h \in Hosts |-> {}]
  /\ inbox = [c \in Clients |-> <<>>]
  /\ hpc = [c \in Clients |-> "none"]
  /\ hreq = [c \in Clients |-> None]
  /\ hstep = [c \in Clients |-> 0]
  /\ hstatus = [c \in Clients |-> None]
  /\ reply = [c \in Clients |-> None]
  /\ recvd = [c \in Clients |-> <<>>]
  /\ outbox = [c \in Clients |-> <<>>]
  /\ houtput = [c \in Clients |-> <<>>]
  /\ socket_file = FALSE
  /\ shutdown_signal = 0
  /\ signals = "waiting"
  /\ hist = [h \in Hosts |-> NewHist]

InitWith(scn) ==
  /\ InitCore(scn)
  /\ wire = NoWire
  /\ built = NoBuilt

\* ------------------------------------------------------------------ startup

\* ConnectionPool::add_device, called by run_server for each enabled device
\* before the listener starts.  A second call for a host replaces the map
\* entries and the channel: the former worker, which has received nothing,
\* sees its channel closed and stops.
AddDevice(h) ==
  /\ server = "starting"
  /\ h \in cfg.devices
  /\ registered' = registered \cup {h}
  /\ connections' =
       [x \in registered \cup {h} |->
          IF x = h THEN NewDeviceConnection(h) ELSE connections[x]]
  /\ queue' = [queue EXCEPT ![h] = <<>>]
  /\ wpc' = [wpc EXCEPT ![h] = "recv"]
  /\ UNCHANGED << cfg, temp, built, wire, listenerVars, now, sent, server, lock, cur, session, connected_since,
                  last_health_check, current_backoff_ms, uploaded_scripts,
                  result, next_retry, live, clientVars, reply, hist >>

\* run_server: every device added, the signal task spawned; start_server
\* removes an old socket file, binds and listens.
StartServer ==
  /\ server = "starting"
  /\ registered = cfg.devices
  /\ server' = "listening"
  /\ socket_file' = TRUE
  /\ UNCHANGED << cfg, temp, built, wire, shutdown_signal, signals, now, sent, registered,
                  connections, lock, queue, workerVars, live, clientVars, reply, hist >>

\* Time passes.
Tick ==
  /\ server # "starting"
  /\ now < cfg.max_ticks * HEALTH_CHECK_INTERVAL
  /\ \E d \in TickSteps : now' = now + d
  /\ UNCHANGED << cfg, temp, built, wire, listenerVars, sent, server, registered, connections, lock, queue,
                  workerVars, live, clientVars, reply, hist >>

\* ------------------------------------------------------------------- worker

\* The worker's positions at which a transport call is in flight.
TransportPcs == {"health", "connecting", "exec", "es_stat", "es_upload", "es_chmod"}
\* connections.lock().await, and the critical section it opens.
LockPcs == {"lock_connecting", "lock_connected", "lock_errored", "lock_result"}
Section(pc) ==
  CASE pc = "lock_connecting" -> "cs_connecting"
    [] pc = "lock_connected" -> "cs_connected"
    [] pc = "lock_errored" -> "cs_errored"
    [] pc = "lock_result" -> "cs_result"

\* The Session handle the worker holds is dropped.
DropSession(h) == live[h] \ {session[h][i] : i \in 1..Len(session[h])}

\* pool.rs 362-387: the operation's result is in; a connectivity-class error
\* clears the Session before the stats are updated.
OpDone(h, r, lhc, scripts, hs) ==
  LET lost == ~r.ok /\ is_connection_error(r.error) IN
  /\ result' = [result EXCEPT ![h] = Some(r)]
  /\ wpc' = [wpc EXCEPT ![h] = "lock_result"]
  /\ session' = [session EXCEPT ![h] = IF lost THEN None ELSE @]
  /\ connected_since' = [connected_since EXCEPT ![h] = IF lost THEN None ELSE @]
  /\ last_health_check' = [last_health_check EXCEPT ![h] = IF lost THEN None ELSE lhc]
  /\ uploaded_scripts' = [uploaded_scripts EXCEPT ![h] = IF lost THEN {} ELSE scripts]
  /\ live' = [live EXCEPT ![h] = IF lost THEN DropSession(h) ELSE @]
  /\ hist' = [hist EXCEPT ![h] = IF lost THEN [hs EXCEPT !.lost = @ + 1] ELSE hs]

\* The memo of EnsureScript (pool.rs 469).
MemoHitNever(script_name, scripts) == FALSE
MemoHit(script_name, scripts) == script_name \in scripts

\* ssh.rs 64-68: exec_as_devel_su returns before it executes anything when
\* the password is empty.
RootRefusedNever(op, password) == FALSE
RootRefused(op, password) == op.kind = "Command" /\ op.as_root /\ password = ""

\* execute_operation up to its first transport call.
BeginOp(h, op, lhc, scripts, hs) ==
  IF op.kind = "EnsureScript" /\ MemoHit(op.script_name, scripts)
  THEN OpDone(h, Ok("ScriptOk"), lhc, scripts, [hs EXCEPT !.memo_hits = @ + 1])
  ELSE IF RootRefused(op, Devices[h].root_password)
  THEN OpDone(h, Err(RootPasswordError), lhc, scripts, hs)
  ELSE
    /\ wpc' = [wpc EXCEPT ![h] = IF op.kind = "EnsureScript" THEN "es_stat" ELSE "exec"]
    /\ result' = [result EXCEPT ![h] = None]
    /\ last_health_check' = [last_health_check EXCEPT ![h] = lhc]
    /\ uploaded_scripts' = [uploaded_scripts EXCEPT ![h] = scripts]
    /\ hist' = [hist EXCEPT ![h] =
                  IF op.kind = "EnsureScript"
                  THEN [hs EXCEPT !.stat_checks = @ + 1] ELSE hs]
    /\ UNCHANGED << session, connected_since, live >>

\* pool.rs 309: a connection is opened only when the worker holds no Session.
NeedsConnectAlways(sess) == TRUE
NeedsConnect(sess) == sess = None

\* pool.rs 286-288: a health check is due.
HealthCheckDueAtInterval(h) ==
  /\ IsSome(session[h])
  /\ IsSome(last_health_check[h])
  /\ now - Unwrap(last_health_check[h]) >= HEALTH_CHECK_INTERVAL
HealthCheckDue(h) ==
  /\ IsSome(session[h])
  /\ IsSome(last_health_check[h])
  /\ now - Unwrap(last_health_check[h]) > HEALTH_CHECK_INTERVAL

\* mpsc::Receiver::recv: the oldest request of the channel.
NextRequestNewest(q) == q[Len(q)]
NextRequest(q) == Head(q)
Remove(q, r) ==
  LET i == CHOOSE i \in 1..Len(q) : q[i] = r
  IN  SubSeq(q, 1, i - 1) \o SubSeq(q, i + 1, Len(q))

\* pool.rs 282-310: rx.recv(), then the health check or what follows it.
WorkerRecv(h) ==
  /\ wpc[h] = "recv"
  /\ queue[h] # <<>>
  /\ LET request == NextRequest(queue[h])
         hs == [hist[h] EXCEPT !.dequeued = @ + 1, !.cold = session[h] = None,
                               !.attempts = 0] IN
     /\ queue' = [queue EXCEPT ![h] = Remove(queue[h], request)]
     /\ cur' = [cur EXCEPT ![h] = Some(request)]
     /\ IF HealthCheckDue(h)
        THEN /\ wpc' = [wpc EXCEPT ![h] = "health"]
             /\ hist' = [hist EXCEPT ![h] = hs]
             /\ UNCHANGED << session, connected_since, last_health_check,
                             uploaded_scripts, result, live >>
        ELSE IF NeedsConnect(session[h])
        THEN /\ wpc' = [wpc EXCEPT ![h] = "lock_connecting"]
             /\ hist' = [hist EXCEPT ![h] = hs]
             /\ UNCHANGED << session, connected_since, last_health_check,
                             uploaded_scripts, result, live >>
        ELSE BeginOp(h, request.operation, last_health_check[h],
                     uploaded_scripts[h], hs)
  /\ UNCHANGED << cfg, temp, built, wire, listenerVars, now, sent, server, registered, connections, lock,
                  current_backoff_ms, next_retry, clientVars, reply >>

\* pool.rs 291-302: the health check `echo 1` returns.
TransportHealth(h) ==
  /\ wpc[h] = "health"
  /\ \/ BeginOp(h, Unwrap(cur[h]).operation, Some(now), uploaded_scripts[h], hist[h])
     \/ /\ session' = [session EXCEPT ![h] = None]
       /\ connected_since' = [connected_since EXCEPT ![h] = None]
       /\ uploaded_scripts' = [uploaded_scripts EXCEPT ![h] = {}]
       /\ live' = [live EXCEPT ![h] = DropSession(h)]
       /\ wpc' = [wpc EXCEPT ![h] = "lock_connecting"]
        /\ hist' = [hist EXCEPT ![h].lost = @ + 1]
        /\ UNCHANGED << last_health_check, result >>
  /\ UNCHANGED << cfg, temp, built, wire, listenerVars, now, sent, server, registered, connections, lock, queue,
                  cur, current_backoff_ms, next_retry, clientVars, reply >>

\* connections.lock().await returns the guard.
WorkerLock(h) ==
  /\ wpc[h] \in LockPcs
  /\ lock = "free"
  /\ lock' = h
  /\ wpc' = [wpc EXCEPT ![h] = Section(wpc[h])]
  /\ UNCHANGED << cfg, temp, built, wire, listenerVars, now, sent, server, registered, connections, queue, cur,
                  session, connected_since, last_health_check, current_backoff_ms,
                  uploaded_scripts, result, next_retry, live, clientVars, reply, hist >>

\* establish_connection 417-427: the guard is dropped at the end of the block,
\* before SshClient::connect.
EstablishGuardHeld(h) == h
EstablishGuard(h) == "free"

\* establish_connection (pool.rs 412-431) up to SshClient::connect.
EstablishConnection(h) ==
  /\ wpc[h] = "cs_connecting"
  /\ lock = h
  /\ connections' = [connections EXCEPT
       ![h].state = Connecting(connections[h].stats.connect_attempts + 1, now),
       ![h].stats.connect_attempts = @ + 1]
  /\ lock' = EstablishGuard(h)
  /\ wpc' = [wpc EXCEPT ![h] = "connecting"]
  /\ hist' = [hist EXCEPT ![h].attempts = @ + 1]
  /\ UNCHANGED << cfg, temp, built, wire, listenerVars, now, sent, server, registered, queue, cur, session,
                  connected_since, last_health_check, current_backoff_ms,
                  uploaded_scripts, result, next_retry, live, clientVars, reply >>

\* SshClient::connect returns: a new Session, or an error.
TransportConnect(h) ==
  /\ wpc[h] = "connecting"
  /\ \/ LET id == connections[h].stats.connect_attempts IN
        /\ live' = [live EXCEPT ![h] = @ \cup {id}]
        /\ result' = [result EXCEPT ![h] = Some(Ok(id))]
     \/ \E e \in ConnectErrors :
        /\ result' = [result EXCEPT ![h] = Some(Err(e))]
        /\ UNCHANGED live
  /\ wpc' = [wpc EXCEPT ![h] = "connect_done"]
  /\ lock' = IF lock = h THEN "free" ELSE lock
  /\ UNCHANGED << cfg, temp, built, wire, listenerVars, now, sent, server, registered, connections, queue, cur,
                  session, connected_since, last_health_check, current_backoff_ms,
                  uploaded_scripts, next_retry, clientVars, reply, hist >>

\* oneshot::Sender::send: the value reaches the receiver if it still exists.
ReceiverAlive(c) == hpc[c] = "await"
SendReplyNever(c, r) == UNCHANGED reply
SendReply(c, r) ==
  reply' = IF ReceiverAlive(c) THEN [reply EXCEPT ![c] = Some(r)] ELSE reply
Replied(hs, c) ==
  [hs EXCEPT !.replies = @ + 1,
             !.dropped = IF ReceiverAlive(c) THEN @ ELSE @ + 1]

Min(a, b) == IF a < b THEN a ELSE b

\* pool.rs 348-349
NextBackoffUncapped(backoff) == backoff * BACKOFF_MULTIPLIER
NextBackoff(backoff) == Min(backoff * BACKOFF_MULTIPLIER, MAX_BACKOFF_MS)

\* pool.rs 332: the advisory retry time of a failed connect.
RetryAtDoubled(backoff) == now + backoff * BACKOFF_MULTIPLIER
RetryAt(backoff) == now + backoff

\* pool.rs 311-332: the worker takes the result of establish_connection.
WorkerConnectResult(h) ==
  /\ wpc[h] = "connect_done"
  /\ LET r == Unwrap(result[h]) IN
     IF r.ok
     THEN /\ session' = [session EXCEPT ![h] = Some(r.value)]
          /\ live' = [live EXCEPT ![h] = DropSession(h)]
          /\ connected_since' = [connected_since EXCEPT ![h] = Some(now)]
          /\ last_health_check' = [last_health_check EXCEPT ![h] = Some(now)]
          /\ current_backoff_ms' = [current_backoff_ms EXCEPT ![h] = INITIAL_BACKOFF_MS]
          /\ uploaded_scripts' = [uploaded_scripts EXCEPT ![h] = {}]
          /\ wpc' = [wpc EXCEPT ![h] = "lock_connected"]
          /\ hist' = [hist EXCEPT ![h].fails = 0, ![h].stat_checks = 0,
                                  ![h].ensured = 0, ![h].memo_hits = 0]
          /\ UNCHANGED next_retry
     ELSE /\ next_retry' = [next_retry EXCEPT ![h] = Some(RetryAt(current_backoff_ms[h]))]
          /\ wpc' = [wpc EXCEPT ![h] = "lock_errored"]
          /\ hist' = [hist EXCEPT ![h].fails = @ + 1, ![h].failed_at = now]
          /\ UNCHANGED << session, live, connected_since, last_health_check,
                          current_backoff_ms, uploaded_scripts >>
  /\ UNCHANGED << cfg, temp, built, wire, listenerVars, now, sent, server, registered, connections, lock, queue,
                  cur, result, clientVars, reply >>

\* pool.rs 319-327, then execute_operation.
WorkerConnected(h) ==
  /\ wpc[h] = "cs_connected"
  /\ lock = h
  /\ connections' = [connections EXCEPT
       ![h].state = Connected(Unwrap(connected_since[h]))]
  /\ lock' = "free"
  /\ BeginOp(h, Unwrap(cur[h]).operation, last_health_check[h],
             uploaded_scripts[h], hist[h])
  /\ UNCHANGED << cfg, temp, built, wire, listenerVars, now, sent, server, registered, queue, cur,
                  current_backoff_ms, next_retry, clientVars, reply >>

\* pool.rs 333-350: the failed connect is recorded and answered.
WorkerErrored(h) ==
  /\ wpc[h] = "cs_errored"
  /\ lock = h
  /\ LET e == Unwrap(result[h]).error
         c == Unwrap(cur[h]).client IN
     /\ connections' = [connections EXCEPT
          ![h].state = Errored(e, next_retry[h]),
          ![h].stats.last_error = Some(e)]
     /\ SendReply(c, Err(e))
     /\ hist' = [hist EXCEPT ![h] = Replied(hist[h], c)]
  /\ lock' = "free"
  /\ current_backoff_ms' = [current_backoff_ms EXCEPT ![h] = NextBackoff(@)]
  /\ wpc' = [wpc EXCEPT ![h] = "recv"]
  /\ cur' = [cur EXCEPT ![h] = None]
  /\ result' = [result EXCEPT ![h] = None]
  /\ next_retry' = [next_retry EXCEPT ![h] = None]
  /\ UNCHANGED << cfg, temp, built, wire, listenerVars, now, sent, server, registered, queue, session,
                  connected_since, last_health_check, uploaded_scripts, live,
                  clientVars >>

\* execute_operation 441-462: the transport call of a Command, an Upload or a
\* Download returns.  The output of a command is named by the command.
TransportExec(h) ==
  /\ wpc[h] = "exec"
  /\ LET op == Unwrap(cur[h]).operation
         owner == RequestOf(Unwrap(cur[h]).client)
         gone == op.kind = "Upload" /\ temp.files[op.local_path] = None IN
     \E r \in IF op.kind = "Command"
              THEN {Ok(op.command)} \cup {Err(e) : e \in cfg.exec_errors}
              ELSE IF gone THEN {Err("No such file or directory")}
              ELSE {Ok(op.kind)} \cup {Err(e) : e \in SftpErrors} :
        /\ OpDone(h, r, last_health_check[h], uploaded_scripts[h], hist[h])
        \* _upload reads the local file, _download writes it
        /\ temp' =
             IF gone THEN [temp EXCEPT !.missing = @ \cup {owner}]
             ELSE IF op.kind = "Upload" /\ r.ok
             THEN [temp EXCEPT !.uploads =
                     @ \cup {[owner |-> owner, bytes |-> Unwrap(temp.files[op.local_path])]}]
             ELSE IF op.kind = "Download" /\ r.ok
             THEN [temp EXCEPT !.files = write(@, op.local_path, owner)]
             ELSE temp
  /\ UNCHANGED << cfg, built, wire, listenerVars, now, sent, server, registered, connections, lock, queue,
                  cur, current_backoff_ms, next_retry, clientVars, reply >>

\* pool.rs 501: the script is recorded only when EnsureScript reaches its end.
InsertAlways(scripts, name, ok) == scripts \cup {name}
Insert(scripts, name, ok) == IF ok THEN scripts \cup {name} ELSE scripts

\* execute_operation 473-487: the stat check returns; the sizes are compared.
TransportStat(h) ==
  /\ wpc[h] = "es_stat"
  /\ LET name == Unwrap(cur[h]).operation.script_name IN
     \/ /\ \E e \in cfg.exec_errors :
             OpDone(h, Err(e), last_health_check[h],
                    Insert(uploaded_scripts[h], name, FALSE), hist[h])
        /\ temp' = temp
     \/ \* current_size = expected_size
        /\ OpDone(h, Ok("ScriptOk"), last_health_check[h],
                  Insert(uploaded_scripts[h], name, TRUE),
                  [hist[h] EXCEPT !.ensured = @ + 1])
        /\ temp' = temp
     \/ \* current_size # expected_size: the temp file is written, the upload starts
        /\ wpc' = [wpc EXCEPT ![h] = "es_upload"]
        /\ temp' = [temp EXCEPT !.files =
                      write(@, script_temp(name), script_content(name))]
        /\ UNCHANGED << session, connected_since, last_health_check,
                        uploaded_scripts, result, live, hist >>
  /\ UNCHANGED << cfg, built, wire, listenerVars, now, sent, server, registered, connections, lock, queue,
                  cur, current_backoff_ms, next_retry, clientVars, reply >>

\* execute_operation 489: the upload of the script returns.
TransportUpload(h) ==
  /\ wpc[h] = "es_upload"
  /\ LET name == Unwrap(cur[h]).operation.script_name IN
     \* _upload 240: the local file is opened after the SFTP session
     IF temp.files[script_temp(name)] = None
     THEN /\ OpDone(h, Err("No such file or directory"), last_health_check[h],
                    Insert(uploaded_scripts[h], name, FALSE), hist[h])
          /\ temp' = [temp EXCEPT !.gone = @ \cup {h}]
     ELSE /\ \/ \E e \in SftpErrors :
                  OpDone(h, Err(e), last_health_check[h],
                         Insert(uploaded_scripts[h], name, FALSE), hist[h])
             \/ /\ wpc' = [wpc EXCEPT ![h] = "es_chmod"]
                /\ UNCHANGED << session, connected_since, last_health_check,
                                uploaded_scripts, result, live, hist >>
          /\ temp' = temp
  /\ UNCHANGED << cfg, built, wire, listenerVars, now, sent, server, registered, connections, lock, queue,
                  cur, current_backoff_ms, next_retry, clientVars, reply >>

\* execute_operation 492-503: chmod +x returns.
TransportChmod(h) ==
  /\ wpc[h] = "es_chmod"
  /\ LET name == Unwrap(cur[h]).operation.script_name IN
     \/ /\ \E e \in cfg.exec_errors :
             OpDone(h, Err(e), last_health_check[h],
                    Insert(uploaded_scripts[h], name, FALSE), hist[h])
        /\ temp' = temp
     \/ \* the local temp file is removed
        /\ OpDone(h, Ok("ScriptOk"), last_health_check[h],
                  Insert(uploaded_scripts[h], name, TRUE),
                  [hist[h] EXCEPT !.ensured = @ + 1])
        /\ temp' = [temp EXCEPT !.files = remove_file(@, script_temp(name))]
  /\ UNCHANGED << cfg, built, wire, listenerVars, now, sent, server, registered, connections, lock, queue,
                  cur, current_backoff_ms, next_retry, clientVars, reply >>

\* pool.rs 368, 392: the counter of the operation's outcome
CountResultTwice(stats, ok) ==
  [stats EXCEPT !.successful_commands = @ + 1, !.failed_commands = @ + 1]
CountResult(stats, ok) ==
  IF ok THEN [stats EXCEPT !.successful_commands = @ + 1]
  ELSE [stats EXCEPT !.failed_commands = @ + 1]

\* pool.rs 363-405: the stats are updated and the reply is sent.
WorkerResult(h) ==
  /\ wpc[h] = "cs_result"
  /\ lock = h
  /\ LET r == Unwrap(result[h])
         c == Unwrap(cur[h]).client IN
     /\ connections' =
          IF r.ok
          THEN [connections EXCEPT
                  ![h].stats = CountResult(@, TRUE),
                  ![h].state = IF IsSome(connected_since[h])
                               THEN Connected(Unwrap(connected_since[h])) ELSE @]
          ELSE [connections EXCEPT
                  ![h].stats = [CountResult(@, FALSE) EXCEPT !.last_error = Some(r.error)],
                  ![h].state = IF session[h] = None THEN Disconnected ELSE @]
     /\ SendReply(c, r)
     /\ hist' = [hist EXCEPT ![h] = Replied(hist[h], c)]
  /\ lock' = "free"
  /\ wpc' = [wpc EXCEPT ![h] = "recv"]
  /\ cur' = [cur EXCEPT ![h] = None]
  /\ result' = [result EXCEPT ![h] = None]
  /\ UNCHANGED << cfg, temp, built, wire, listenerVars, now, sent, server, registered, queue, session,
                  connected_since, last_health_check, current_backoff_ms,
                  uploaded_scripts, next_retry, live, clientVars >>

\* send_operation 214-216: tx.send fails when the worker's receiver is gone.
QueueClosed(h) == wpc[h] = "dead"
QueueClosedMessage(host) == "Device {} command queue closed"
\* send_operation 219-222: the oneshot sender was dropped without a reply.
ProcessorDiedMessage(host) == "Device {} command processor died"

\* The worker task of host h ends while the pool still holds its sender (the
\* task panics or is cancelled): its receiver, the requests in the channel
\* and the request it processes are dropped with their oneshot senders, and
\* so are its Session and the guard it may hold.  The pool's maps keep the
\* host.  send_operation 219-222: a handler that waits for one of those
\* requests gets "command processor died".
WorkerStopped(h) ==
  /\ h \in registered
  /\ ~QueueClosed(h)
  /\ wpc' = [wpc EXCEPT ![h] = "dead"]
  /\ queue' = [queue EXCEPT ![h] = <<>>]
  /\ cur' = [cur EXCEPT ![h] = None]
  /\ result' = [result EXCEPT ![h] = None]
  /\ session' = [session EXCEPT ![h] = None]
  /\ live' = [live EXCEPT ![h] = {}]
  /\ lock' = IF lock = h THEN "free" ELSE lock
  /\ reply' = [c \in Clients |->
       IF \/ \E i \in 1..Len(queue[h]) : queue[h][i].client = c
          \/ IsSome(cur[h]) /\ Unwrap(cur[h]).client = c /\ reply[c] = None
       THEN Some(Err(ProcessorDiedMessage(h)))
       ELSE reply[c]]
  /\ UNCHANGED << cfg, temp, built, wire, listenerVars, now, sent, server, registered, connections,
                  connected_since, last_health_check, current_backoff_ms,
                  uploaded_scripts, next_retry, clientVars, hist >>

\* ----------------------------------------------------- socket server, router

\* CommandResult; variant is the CommandOutput variant of a Success.
SuccessAs(variant, output) ==
  [tag |-> "Success", variant |-> variant, output |-> output, message |-> "", kind |-> ""]
SuccessText(output) == SuccessAs("Text", output)
Success(output) == SuccessAs("Lines", output)
Error(message, kind) ==
  [tag |-> "Error", variant |-> "", output |-> "", message |-> message, kind |-> kind]

\* handle_client 103-106: the Response echoes the Request's id.
ResponseFixedId(request, res) == [id |-> 1, result |-> res]
Response(request, res) == [id |-> request.id, result |-> res]

\* process_command: the kind of a failed recipe.
ErrorKindAlwaysNotFound(message) == "DeviceNotFound"
ErrorKindOf(message) ==
  IF contains(Chars[message], Chars["not found"]) THEN "DeviceNotFound" ELSE "CommandFailed"

\* Path::file_name, temp_dir().join and the Downloads directory, for the
\* files of the model.
file_name(path) ==
  CASE path \in {"/build/app.rpm", "/home/defaultuser/Downloads/app.rpm"} -> "app.rpm"
    [] path = "/build/lib.rpm" -> "lib.rpm"
local_temp(name) ==
  CASE name = "app.rpm" -> "/tmp/app.rpm"
    [] name = "lib.rpm" -> "/tmp/lib.rpm"
downloads_path(name) ==
  CASE name = "app.rpm" -> "/home/defaultuser/Downloads/app.rpm"
    [] name = "lib.rpm" -> "/home/defaultuser/Downloads/lib.rpm"
\* execute_install 523-526 and 531: the commands built from the remote path.
install_command(remote_path) ==
  CASE remote_path = "/home/defaultuser/Downloads/app.rpm" ->
         "ru.omp.APM.Install /home/defaultuser/Downloads/app.rpm"
    [] remote_path = "/home/defaultuser/Downloads/lib.rpm" ->
         "ru.omp.APM.Install /home/defaultuser/Downloads/lib.rpm"
cleanup_command(remote_path) ==
  CASE remote_path = "/home/defaultuser/Downloads/app.rpm" ->
         "rm -f /home/defaultuser/Downloads/app.rpm"
    [] remote_path = "/home/defaultuser/Downloads/lib.rpm" ->
         "rm -f /home/defaultuser/Downloads/lib.rpm"

\* A pool operation of a recipe: must is the `?` after it (without it the
\* error is swallowed), keep says that the recipe uses its output.
Step(op, must, keep) == [op |-> op, must |-> must, keep |-> keep]

\* execute_info 1192-1300: the queries, none of which may fail the recipe.
INFO_QUERIES == 17

\* execute_install 516-532: the upload, the install and the cleanup, whose
\* error is dropped by `.ok()`.
InstallStepsCleanupMust(command) ==
  LET remote == downloads_path(file_name(command.path)) IN
  << Step(OpUpload(local_temp(file_name(command.path)), remote), TRUE, FALSE),
     Step(OpCommand(install_command(remote), FALSE), TRUE, TRUE),
     Step(OpCommand(cleanup_command(remote), FALSE), TRUE, FALSE) >>
InstallSteps(command) ==
  LET remote == downloads_path(file_name(command.path)) IN
  << Step(OpUpload(local_temp(file_name(command.path)), remote), TRUE, FALSE),
     Step(OpCommand(install_command(remote), FALSE), TRUE, TRUE),
     Step(OpCommand(cleanup_command(remote), FALSE), FALSE, FALSE) >>

\* execute_logs 919-932
LogsSteps(command) ==
  IF command.clear
  THEN << Step(OpCommand("journalctl --rotate && journalctl --vacuum-time=1s", TRUE),
               TRUE, TRUE) >>
  ELSE << Step(OpCommand("journalctl", TRUE), TRUE, TRUE) >>

\* execute_key 657-681
KeySteps(command) ==
  CASE command.key = "power" -> << Step(OpCommand("req_trigger_powerkey_event", FALSE), TRUE, FALSE) >>
    [] command.key = "home" ->
         << Step(OpCommand("getScreenResolution", FALSE), FALSE, FALSE),
            Step(OpEnsureScript("swipe"), TRUE, FALSE),
            Step(OpCommand("python3 swipe", TRUE), TRUE, FALSE) >>

\* The pool operations the recipe of a command issues, in order.
Recipe(command) ==
  CASE command.name = "Shell" -> << Step(OpCommand("shell", command.root), TRUE, TRUE) >>
    [] command.name = "Tap" ->
         << Step(OpEnsureScript("tap"), TRUE, FALSE),
            Step(OpCommand("python3 tap", TRUE), TRUE, TRUE) >>
    [] command.name = "Swipe" ->
         << Step(OpEnsureScript("swipe"), TRUE, FALSE),
            Step(OpCommand("python3 swipe", TRUE), TRUE, TRUE) >>
    [] command.name = "Install" -> InstallSteps(command)
    [] command.name = "Uninstall" -> << Step(OpCommand("ru.omp.APM.Remove", FALSE), TRUE, TRUE) >>
    [] command.name = "Packages" -> << Step(OpCommand("ru.omp.APM.GetPackages", FALSE), TRUE, TRUE) >>
    [] command.name = "Push" ->
         << Step(OpUpload(local_temp(file_name(command.path)), "/home/defaultuser/app.rpm"),
                 TRUE, FALSE) >>
    [] command.name = "Pull" ->
         << Step(OpDownload(command.path, local_temp(file_name(command.path))), TRUE, FALSE) >>
    [] command.name = "Info" ->
         [i \in 1..INFO_QUERIES |-> Step(OpCommand("query", FALSE), FALSE, TRUE)]
    [] command.name = "Key" -> KeySteps(command)
    [] command.name = "Screenshot" ->
         << Step(OpCommand("saveScreenshot", TRUE), TRUE, FALSE),
            Step(OpCommand("base64", TRUE), TRUE, TRUE),
            Step(OpCommand("rm -f screenshot", TRUE), FALSE, FALSE) >>
    [] command.name = "Launch" -> << Step(OpCommand("invoker", FALSE), TRUE, TRUE) >>
    [] command.name = "Stop" -> << Step(OpCommand("pkill", FALSE), TRUE, TRUE) >>
    [] command.name = "Logs" -> LogsSteps(command)
    [] command.name = "Open" -> << Step(OpCommand("openUrl", FALSE), TRUE, FALSE) >>
    [] OTHER -> << >>

\* The CommandOutput variant of a command's Success.
OutputVariant(command) ==
  CASE command.name \in {"Pull", "Screenshot"} -> "Binary"
    [] command.name = "Info" -> "DeviceInfo"
    [] command.name = "ServerStatus" -> "Status"
    [] OTHER -> "Lines"

\* What a recipe returns from the outputs it kept.
Output(command, kept) ==
  CASE command.name = "Info" -> kept
    [] command.name = "Pull" -> "data"
    [] command.name = "Push" -> "{}: {} bytes"
    [] command.name = "Open" -> "Opened: {}"
    [] command.name = "Key" ->
         IF command.key = "power" THEN "Power key sent" ELSE "Home gesture sent (swipe up)"
    [] OTHER -> kept[Len(kept)]

\* The output a recipe keeps of a step: the step's value, or the default it
\* falls back to when the step's error is swallowed.
Kept(kept, step, r) ==
  IF step.keep THEN Append(kept, IF r.ok THEN r.value ELSE "Unknown") ELSE kept

\* execute_tap 550, execute_swipe 584-589
CoordTooLargeInclusive(coord) == coord >= MAX_COORD
CoordTooLarge(coord) == coord > MAX_COORD

\* str::is_empty and str::contains('.') of execute_launch, execute_stop and
\* execute_uninstall.
is_empty(name) == Len(name) = 0
has_dot(name) == \E i \in 1..Len(name) : name[i] = "."

\* execute_logs with the clear branch before the argument checks
ValidateClearFirst(command) ==
  IF command.name # "Logs" THEN None
  ELSE IF command.clear
  THEN (IF ~command.force THEN Some("Clearing logs requires --force flag") ELSE None)
  ELSE IF command.lines = 0 THEN Some("Lines count must be greater than 0")
  ELSE IF command.kernel /\ IsSome(command.unit)
  THEN Some("Cannot specify both --kernel and --unit")
  ELSE None

\* The argument checks a recipe makes before its first pool operation: the
\* message of the error it returns, if any.
Validate(command) ==
  CASE command.name = "Tap" ->
         IF CoordTooLarge(command.x) \/ CoordTooLarge(command.y)
         THEN Some("Coordinates out of range: ({}, {}). Max: 4096x4096") ELSE None
    [] command.name = "Swipe" ->
         IF command.mode = "Coords"
            /\ \E coord \in {command.x, command.y, command.x2, command.y2} : CoordTooLarge(coord)
         THEN Some("Coordinate out of range: {}. Max: 4096") ELSE None
    [] command.name \in {"Launch", "Stop"} ->
         IF is_empty(command.app) THEN Some("App name cannot be empty")
         ELSE IF ~has_dot(command.app)
         THEN Some("Invalid app name: '{}'. Expected D-Bus format: ru.domain.AppName")
         ELSE None
    [] command.name = "Uninstall" ->
         IF is_empty(command.app) THEN Some("Package name cannot be empty") ELSE None
    [] command.name = "Logs" ->
         IF command.lines = 0 THEN Some("Lines count must be greater than 0")
         ELSE IF command.kernel /\ IsSome(command.unit)
         THEN Some("Cannot specify both --kernel and --unit")
         ELSE IF command.clear /\ ~command.force
         THEN Some("Clearing logs requires --force flag") ELSE None
    [] OTHER -> None

\* send_operation 197-203: the host's queue, or "Device {} not found".
NotFoundMessageNoHost(host) == "not found"
NotFoundMessage(host) == "Device X not found"

\* A recipe on a host the pool does not know: every pool operation fails in
\* send_operation; the first one that must succeed fails the recipe.
WithoutDevice(command) ==
  LET recipe == Recipe(command)
      message == NotFoundMessage(command.device) IN
  IF \E i \in 1..Len(recipe) : recipe[i].must
  THEN Error(message, ErrorKindOf(message))
  ELSE SuccessAs(OutputVariant(command),
         Output(command,
           [i \in 1..Cardinality({j \in 1..Len(recipe) : recipe[j].keep}) |-> "Unknown"]))

\* send_operation 205-216: the request enters the worker's channel.
Enqueued(q, c, op, ticket) ==
  Append(q, [operation |-> op, client |-> c, ticket |-> ticket])

\* The listener accepts a connection and spawns its handler.
Accept(c) ==
  /\ server = "listening"
  /\ c \in cfg.clients
  /\ hpc[c] = "none"
  /\ hpc' = [hpc EXCEPT ![c] = "recv"]
  /\ UNCHANGED << cfg, temp, built, wire, listenerVars, now, sent, server, registered, connections, lock, queue,
                  workerVars, live, inbox, hreq, hstep, hstatus, houtput, recvd, outbox,
                  reply, hist >>

\* A client writes a framed Request on its connection.
ClientSend(c) ==
  /\ hpc[c] \notin {"none", "dropped"}
  /\ sent < cfg.max_reqs
  /\ \E command \in cfg.commands :
       inbox' = [inbox EXCEPT ![c] = Append(@, [id |-> sent + 1, command |-> command])]
  /\ sent' = sent + 1
  /\ UNCHANGED << cfg, temp, built, wire, listenerVars, now, server, registered, connections, lock, queue,
                  workerVars, live, hpc, hreq, hstep, hstatus, houtput, recvd, outbox,
                  reply, hist >>

\* handle_client 85-112 with process_command: a Request is received; a command
\* that needs no worker is answered, another one issues its first operation.
HandlerRecv(c) ==
  /\ hpc[c] = "recv"
  /\ inbox[c] # <<>>
  /\ LET request == Head(inbox[c])
         command == request.command
         h == command.device
         invalid == Validate(command) IN
     /\ inbox' = [inbox EXCEPT ![c] = Tail(@)]
     /\ recvd' = [recvd EXCEPT ![c] = Append(@, request)]
     /\ CASE command.name = "Ping" ->
               /\ outbox' = [outbox EXCEPT ![c] =
                    Append(@, Response(request, Success(<<"pong">>)))]
               /\ UNCHANGED << hpc, hreq, hstep, queue, hist >>
          [] command.name = "ServerStatus" ->
               /\ hpc' = [hpc EXCEPT ![c] = "status_list"]
               /\ hreq' = [hreq EXCEPT ![c] = Some(request)]
               /\ UNCHANGED << outbox, hstep, queue, hist >>
          [] command.name = "KillServer" ->
               /\ outbox' = [outbox EXCEPT ![c] =
                    Append(@, Response(request, Success(<<"Server shutdown initiated">>)))]
               /\ UNCHANGED << hpc, hreq, hstep, queue, hist >>
          [] OTHER ->
               IF IsSome(invalid)
               THEN /\ outbox' = [outbox EXCEPT ![c] =
                         Append(@, Response(request,
                           Error(Unwrap(invalid), ErrorKindOf(Unwrap(invalid)))))]
                    /\ UNCHANGED << hpc, hreq, hstep, queue, hist >>
               ELSE IF h \notin registered
               THEN /\ outbox' = [outbox EXCEPT ![c] =
                         Append(@, Response(request, WithoutDevice(command)))]
                    /\ UNCHANGED << hpc, hreq, hstep, queue, hist >>
               ELSE /\ QueueClosed(h) \/ Len(queue[h]) < CHANNEL_CAPACITY
                    /\ queue' = IF QueueClosed(h) THEN queue
                                 ELSE [queue EXCEPT ![h] =
                                   Enqueued(@, c, Recipe(command)[1].op, hist[h].enqueued + 1)]
                    /\ hist' = IF QueueClosed(h) THEN hist
                                ELSE [hist EXCEPT ![h].enqueued = @ + 1]
                    /\ hpc' = [hpc EXCEPT ![c] = "await"]
                    /\ hreq' = [hreq EXCEPT ![c] = Some(request)]
                    /\ hstep' = [hstep EXCEPT ![c] = 1]
                    /\ UNCHANGED outbox
     /\ reply' = IF /\ command.name \notin {"Ping", "ServerStatus", "KillServer"}
                     /\ ~IsSome(invalid)
                     /\ h \in registered
                     /\ QueueClosed(h)
                  THEN [reply EXCEPT ![c] = Some(Err(QueueClosedMessage(h)))]
                  ELSE reply
     \* execute_push 1075-1076, execute_install 510-511: the data of the
     \* request is written to the temp file before the upload is requested
     /\ temp' = IF command.name \in {"Push", "Install"}
                 THEN [temp EXCEPT !.files =
                         write(@, local_temp(file_name(command.path)),
                               [client |-> c, n |-> Len(recvd[c]) + 1])]
                 ELSE temp
  /\ UNCHANGED << cfg, built, wire, listenerVars, now, sent, server, registered, connections,
                  lock, workerVars, live, hstatus, houtput >>

\* send_operation 218-222 and the command's recipe: the reply of an operation
\* arrives; the recipe fails, issues its next operation, or returns and the
\* Response is written.
HandlerReply(c) ==
  /\ hpc[c] = "await"
  /\ IsSome(reply[c])
  /\ LET answer == Unwrap(reply[c])
         request == Unwrap(hreq[c])
         h == request.command.device
         recipe == Recipe(request.command)
         step == recipe[hstep[c]]
         transfer == step.op.kind \in {"Upload", "Download"} /\ answer.ok
         \* execute_pull 1109-1110: the downloaded file is read
         unread == transfer /\ step.op.kind = "Download"
                   /\ temp.files[step.op.local_path] = None
         r == IF unread THEN Err("Failed to read downloaded file: {}") ELSE answer
         failed == ~r.ok /\ step.must
         kept == Kept(houtput[c], step, r) IN
     \* execute_push 1083, execute_install 519, execute_pull 1113: the temp
     \* file is removed after the transfer
     /\ temp' =
          IF ~transfer THEN temp
          ELSE IF unread THEN [temp EXCEPT !.missing = @ \cup {RequestOf(c)}]
          ELSE [temp EXCEPT
                  !.files = remove_file(@, step.op.local_path),
                  !.pulls = IF step.op.kind = "Download"
                            THEN @ \cup {[owner |-> RequestOf(c),
                                          bytes |-> Unwrap(temp.files[step.op.local_path])]}
                            ELSE @]
     /\ IF ~failed /\ hstep[c] < Len(recipe)
        THEN /\ QueueClosed(h) \/ Len(queue[h]) < CHANNEL_CAPACITY
             /\ queue' = IF QueueClosed(h) THEN queue
                          ELSE [queue EXCEPT ![h] =
                            Enqueued(@, c, recipe[hstep[c] + 1].op, hist[h].enqueued + 1)]
             /\ hist' = IF QueueClosed(h) THEN hist ELSE [hist EXCEPT ![h].enqueued = @ + 1]
             /\ reply' = [reply EXCEPT ![c] =
                  IF QueueClosed(h) THEN Some(Err(QueueClosedMessage(h))) ELSE None]
             /\ hstep' = [hstep EXCEPT ![c] = @ + 1]
             /\ houtput' = [houtput EXCEPT ![c] = kept]
             /\ UNCHANGED << hpc, hreq, outbox >>
        ELSE /\ outbox' = [outbox EXCEPT ![c] =
                  Append(@, Response(request,
                    IF failed THEN Error(r.error, ErrorKindOf(r.error))
                    ELSE SuccessAs(OutputVariant(request.command),
                                   Output(request.command, kept))))]
             /\ hpc' = [hpc EXCEPT ![c] = "recv"]
             /\ hreq' = [hreq EXCEPT ![c] = None]
             /\ hstep' = [hstep EXCEPT ![c] = 0]
             /\ houtput' = [houtput EXCEPT ![c] = <<>>]
             /\ reply' = [reply EXCEPT ![c] = None]
             /\ UNCHANGED << queue, hist >>
  /\ UNCHANGED << cfg, built, wire, listenerVars, now, sent, server, registered, connections,
                  lock, workerVars, live, inbox, hstatus, recvd >>

\* The order in which get_server_status visits the devices.
HostOrder == << "A", "B" >>

\* get_server_status 452-464
StateInfo(state) ==
  CASE state.tag = "Connecting" -> [tag |-> "Connecting", attempt |-> state.attempt]
    [] state.tag = "Connected" ->
         [tag |-> "Connected", duration_secs |-> (now - state.since) \div 1000]
    [] state.tag = "Errored" -> [tag |-> "Errored", error |-> state.error]
    [] OTHER -> [tag |-> state.tag]

\* ConnectionPool::list_devices (pool.rs 225-231), under the lock.
HandlerStatusList(c) ==
  /\ hpc[c] = "status_list"
  /\ lock = "free"
  /\ hstatus' = [hstatus EXCEPT ![c] =
       Some([list |-> [h \in registered |-> connections[h].state], devices |-> <<>>])]
  /\ hpc' = [hpc EXCEPT ![c] = "status_info"]
  /\ hstep' = [hstep EXCEPT ![c] = 1]
  /\ UNCHANGED << cfg, temp, built, wire, listenerVars, now, sent, server, registered, connections, lock, queue,
                  workerVars, live, inbox, hreq, houtput, recvd, outbox, reply, hist >>

\* ConnectionPool::get_device_info (pool.rs 234-240) for the next device, under
\* the lock; after the last one the Response is written.
HandlerStatusInfo(c) ==
  /\ hpc[c] = "status_info"
  /\ lock = "free"
  /\ LET st == Unwrap(hstatus[c])
         h == HostOrder[hstep[c]]
         devices == Append(st.devices,
                      [host |-> h, state |-> StateInfo(st.list[h]),
                       stats |-> connections[h].stats]) IN
     IF hstep[c] < Len(HostOrder)
     THEN /\ hstatus' = [hstatus EXCEPT ![c] = Some([st EXCEPT !.devices = devices])]
          /\ hstep' = [hstep EXCEPT ![c] = @ + 1]
          /\ UNCHANGED << hpc, hreq, outbox >>
     ELSE /\ outbox' = [outbox EXCEPT ![c] =
               Append(@, Response(Unwrap(hreq[c]), SuccessAs("Status", devices)))]
          /\ hstatus' = [hstatus EXCEPT ![c] = None]
          /\ hpc' = [hpc EXCEPT ![c] = "recv"]
          /\ hreq' = [hreq EXCEPT ![c] = None]
          /\ hstep' = [hstep EXCEPT ![c] = 0]
  /\ UNCHANGED << cfg, temp, built, wire, listenerVars, now, sent, server, registered, connections, lock, queue,
                  workerVars, live, inbox, houtput, recvd, reply, hist >>

\* setup_signal_handlers 72-89: SIGTERM or SIGINT arrives; the signal task
\* sends on the shutdown channel and ends.
Signal ==
  /\ cfg.shutdown
  /\ server # "starting"
  /\ signals = "waiting"
  /\ signals' = "done"
  /\ shutdown_signal' = shutdown_signal + 1
  /\ UNCHANGED << cfg, temp, built, wire, socket_file, now, sent, server, registered, connections,
                  lock, queue, workerVars, live, clientVars, reply, hist >>

\* start_server 69-81: the select takes the shutdown signal, the loop ends,
\* the socket file is removed and start_server returns.
RemoveSocketNever(exists) == exists
RemoveSocket(exists) == FALSE
Shutdown ==
  /\ server = "listening"
  /\ shutdown_signal > 0
  /\ shutdown_signal' = shutdown_signal - 1
  /\ server' = "stopped"
  /\ socket_file' = RemoveSocket(socket_file)
  /\ UNCHANGED << cfg, temp, built, wire, signals, now, sent, registered, connections, lock, queue,
                  workerVars, live, clientVars, reply, hist >>

\* main returns after start_server: the runtime drops a handler task at an
\* await, and with it the receiver of the reply it waits for.
HandlerDropped(c) ==
  /\ server = "stopped"
  /\ hpc[c] \in {"recv", "await", "status_list", "status_info"}
  /\ hpc' = [hpc EXCEPT ![c] = "dropped"]
  /\ reply' = [reply EXCEPT ![c] = None]
  /\ UNCHANGED << cfg, temp, built, wire, listenerVars, now, sent, server, registered, connections, lock, queue,
                  workerVars, live, inbox, hreq, hstep, hstatus, houtput, recvd, outbox,
                  hist >>

\* ------------------------------------------------------------------ framing

\* wire.rs 33: the largest length recv_message accepts.
MAX_MESSAGE == 100 * 1024 * 1024

\* The bytes of a stream, run-length encoded: n bytes of a JSON text (its
\* quotes are counted in n and left out of text), or one byte of value val.
Raw(val) == [text |-> "", val |-> val, n |-> 1]
Json(text, n) == [text |-> text, val |-> 0, n |-> n]

RECURSIVE Size(_)
Size(bytes) == IF bytes = <<>> THEN 0 ELSE Head(bytes).n + Size(Tail(bytes))

\* Request: Ping, or a Shell whose command is a string of chars letters.
WireRequest(id, name, chars) == [id |-> id, name |-> name, chars |-> chars]
NoRequest == WireRequest(0, "", 0)
\* The number of bytes of a Shell request without its id and its command.
SHELL_OVERHEAD == 6 + 58 + 4
WireRequests ==
  { WireRequest(id, "Ping", 0) : id \in {1, 42} }
  \cup { WireRequest(id, "Shell", chars) :
           id \in {1, 42},
           chars \in {0, 3, MAX_MESSAGE - SHELL_OVERHEAD - 2,
                      MAX_MESSAGE - SHELL_OVERHEAD - 1, MAX_MESSAGE - SHELL_OVERHEAD} }

\* serde_json::to_vec of a Request
IdDigits(id) == IF id = 1 THEN Json("1", 1) ELSE Json("42", 2)
ShellHead == Json(",command:{Shell:{device:A,root:false,command:", 58)
ShellTail == Json("}}}", 4)
to_vec(msg) ==
  << Json("{id:", 6), IdDigits(msg.id) >>
  \o (IF msg.name = "Ping" THEN << Json(",command:Ping}", 18) >>
      ELSE << ShellHead >>
           \o (IF msg.chars > 0 THEN << Json("a", msg.chars) >> ELSE << >>)
           \o << ShellTail >>)

\* serde_json::from_slice::<Request>
from_slice(buf) ==
  LET id == IF Len(buf) < 2 THEN 0
            ELSE IF buf[2] = Json("1", 1) THEN 1
            ELSE IF buf[2] = Json("42", 2) THEN 42 ELSE 0
      good(msg) == [ok |-> TRUE, msg |-> msg]
  IN  IF id = 0 \/ buf[1] # Json("{id:", 6) \/ Len(buf) < 3
      THEN [ok |-> FALSE, msg |-> NoRequest]
      ELSE IF Len(buf) = 3 /\ buf[3] = Json(",command:Ping}", 18)
      THEN good(WireRequest(id, "Ping", 0))
      ELSE IF Len(buf) = 4 /\ buf[3] = ShellHead /\ buf[4] = ShellTail
      THEN good(WireRequest(id, "Shell", 0))
      ELSE IF Len(buf) = 5 /\ buf[3] = ShellHead /\ buf[4].text = "a" /\ buf[5] = ShellTail
      THEN good(WireRequest(id, "Shell", buf[4].n))
      ELSE [ok |-> FALSE, msg |-> NoRequest]

\* u32::to_le_bytes and u32::from_le_bytes; the lengths of the model are
\* below 2^31, where `as u32` and `as usize` change nothing.
to_be_bytes(len) == [i \in 1..4 |-> Raw((len \div (256 ^ (4 - i))) % 256)]
to_le_bytes(len) == [i \in 1..4 |-> Raw((len \div (256 ^ (i - 1))) % 256)]
from_le_bytes(bs) ==
  IF Len(bs) = 4
  THEN bs[1].val + 256 * bs[2].val + 65536 * bs[3].val + 16777216 * bs[4].val
  ELSE 0

\* wire.rs 6-21
send_message(stream, msg) ==
  LET json == to_vec(msg) IN stream \o to_le_bytes(Size(json)) \o json

\* AsyncReadExt::read_exact of k bytes that have arrived: the bytes read and
\* what stays in the stream; fewer than k bytes and a closed stream are an error.
RECURSIVE read_exact(_, _)
read_exact(stream, k) ==
  IF k = 0 THEN [ok |-> TRUE, buf |-> << >>, rest |-> stream]
  ELSE IF stream = << >> THEN [ok |-> FALSE, buf |-> << >>, rest |-> << >>]
  ELSE IF Head(stream).n <= k
  THEN LET r == read_exact(Tail(stream), k - Head(stream).n)
       IN  [r EXCEPT !.buf = << Head(stream) >> \o @]
  ELSE [ok |-> TRUE, buf |-> << Json("cut", k) >>,
        rest |-> << Json("cut", Head(stream).n - k) >> \o Tail(stream)]

\* wire.rs 33: the sanity check of the length.
FrameTooLargeInclusive(len) == len >= MAX_MESSAGE
FrameTooLarge(len) == len > MAX_MESSAGE

\* wire.rs 24-43
recv_message(stream) ==
  LET len_bytes == read_exact(stream, 4)
      len == from_le_bytes(len_bytes.buf)
      payload == read_exact(len_bytes.rest, len)
      value == from_slice(payload.buf)
  IN  IF ~len_bytes.ok THEN [ok |-> FALSE, msg |-> NoRequest, rest |-> len_bytes.rest]
      ELSE IF FrameTooLarge(len) THEN [ok |-> FALSE, msg |-> NoRequest, rest |-> len_bytes.rest]
      ELSE IF ~payload.ok THEN [ok |-> FALSE, msg |-> NoRequest, rest |-> payload.rest]
      ELSE [ok |-> value.ok, msg |-> value.msg, rest |-> payload.rest]

\* A client writes its next Request on the stream.
WireSend ==
  /\ wire.sent < Len(wire.msgs)
  /\ wire' = [wire EXCEPT !.sent = @ + 1,
                          !.stream = send_message(@, wire.msgs[wire.sent + 1])]
  /\ UNCHANGED << cfg, temp, built, listenerVars, now, sent, server, registered, connections, lock,
                  queue, workerVars, live, clientVars, reply, hist >>

\* handle_client 85-112 on that stream: a Request is read and its Response
\* written, or the read fails and the handler leaves its loop.
WireRecv ==
  /\ ~wire.closed
  /\ wire.stream # << >>
  /\ LET r == recv_message(wire.stream) IN
     wire' = IF r.ok
             THEN [wire EXCEPT !.stream = r.rest, !.out = Append(@, r.msg),
                               !.responses = @ + 1]
             ELSE [wire EXCEPT !.stream = r.rest, !.closed = TRUE]
  /\ UNCHANGED << cfg, temp, built, listenerVars, now, sent, server, registered, connections, lock,
                  queue, workerVars, live, clientVars, reply, hist >>

\* Payloads that are not the JSON of a Request: an empty payload, an empty
\* object, a Request without its command, a command variant that does not
\* exist, and bytes that are no JSON.
MalformedKinds == 1..5
MalformedPayload(k) ==
  CASE k = 1 -> << >>
    [] k = 2 -> << Json("{}", 2) >>
    [] k = 3 -> << Json("{id:", 6), Json("1", 1), Json("}", 1) >>
    [] k = 4 -> << Json("{id:", 6), Json("1", 1), Json(",command:Bogus}", 19) >>
    [] k = 5 -> << Json("hello", 5) >>

\* What a client writes that is no Request: the plan of the stream names it
\* by its kind.
Malformed(k) == WireRequest(0, "Malformed", k)

\* A peer writes a well-formed frame around such a payload: the four bytes
\* of its length, then the payload.
WireSendMalformed ==
  /\ wire.sent < Len(wire.msgs)
  /\ wire.msgs[wire.sent + 1].name = "Malformed"
  /\ LET payload == MalformedPayload(wire.msgs[wire.sent + 1].chars) IN
     wire' = [wire EXCEPT !.sent = @ + 1,
                          !.stream = @ \o to_le_bytes(Size(payload)) \o payload]
  /\ UNCHANGED << cfg, temp, built, listenerVars, now, sent, server, registered, connections, lock,
                  queue, workerVars, live, clientVars, reply, hist >>

\* A client writes its next Request, which is a Request.
WireSendRequest ==
  /\ wire.sent < Len(wire.msgs)
  /\ wire.msgs[wire.sent + 1].name # "Malformed"
  /\ WireSend

\* ----------------------------------------------------------- shell quoting

\* str::replace(from, to) with a char pattern
RECURSIVE replace(_, _, _)
replace(s, from, to) ==
  IF s = << >> THEN << >>
  ELSE (IF Head(s) = from THEN to ELSE << Head(s) >>) \o replace(Tail(s), from, to)

\* shell_escape.rs 24-26, socket_server.rs 980-982: s.replace('\'', "'\\''")
escape_nothing(s) == s
escape_single_quote(s) == replace(s, "'", << "'", "\\", "'", "'" >>)

\* ssh.rs 74-78: format!("echo '{}' | devel-su sh -c '{}'", ..)
EchoHead == << "e","c","h","o"," ","'" >>
DevelSuMid == << "'"," ","|"," ","d","e","v","e","l","-","s","u"," ","s","h"," ","-","c"," ","'" >>
devel_su_command(password, command) ==
  EchoHead \o escape_single_quote(password) \o DevelSuMid
           \o escape_single_quote(command) \o << "'" >>

\* format!("{}", n) of an unsigned integer: its decimal digits
Digits == << "0","1","2","3","4","5","6","7","8","9" >>
RECURSIVE to_string(_)
to_string(n) ==
  IF n < 10 THEN << Digits[n + 1] >>
  ELSE to_string(n \div 10) \o << Digits[(n % 10) + 1] >>

\* build_journalctl_command 939-977
Journalctl == << "j","o","u","r","n","a","l","c","t","l" >>
KernelFlag == << " ","-","k" >>
LinesFlag == << " ","-","n"," " >>
PriorityFlag == << " ","-","p"," " >>
\* its text up to the lines of a request for 100 lines, no kernel, no priority
JournalHead == << "j","o","u","r","n","a","l","c","t","l"," ","-","n"," ","1","0","0" >>
UnitFlag == << " ","-","u"," ","'" >>
SinceFlag == << " ","-","-","s","i","n","c","e"," ","'" >>
OutputOptions == << " ","-","-","n","o","-","p","a","g","e","r"," ","-","-","n","o","-","h","o","s",
     "t","n","a","m","e" >>
GrepPipe == << " ","|"," ","g","r","e","p"," ","'" >>
build_journalctl_command(args) ==
  Journalctl
  \o (IF args.kernel THEN KernelFlag ELSE << >>)
  \o LinesFlag \o to_string(args.lines)
  \o (IF IsSome(args.priority) THEN PriorityFlag \o Unwrap(args.priority) ELSE << >>)
  \o (IF IsSome(args.unit)
      THEN UnitFlag \o escape_single_quote(Unwrap(args.unit)) \o << "'" >> ELSE << >>)
  \o (IF IsSome(args.since)
      THEN SinceFlag \o escape_single_quote(Unwrap(args.since)) \o << "'" >> ELSE << >>)
  \o OutputOptions
  \o (IF IsSome(args.grep)
      THEN GrepPipe \o escape_single_quote(Unwrap(args.grep)) \o << "'" >> ELSE << >>)

\* exec_as_devel_su builds the command line of an as-root command.
ExecAsDevelSu ==
  /\ built.password # << >>
  /\ built.devel_su = None
  /\ built' = [built EXCEPT !.devel_su = Some(devel_su_command(built.password, built.command))]
  /\ UNCHANGED << cfg, temp, wire, listenerVars, now, sent, server, registered, connections, lock,
                  queue, workerVars, live, clientVars, reply, hist >>

\* The worker classifies the error message of a failed operation.
ClassifyError ==
  /\ built.is_connection = None
  /\ built' = [built EXCEPT !.is_connection = Some(is_connection_error_text(built.error))]
  /\ UNCHANGED << cfg, temp, wire, listenerVars, now, sent, server, registered, connections, lock,
                  queue, workerVars, live, clientVars, reply, hist >>

\* execute_logs builds the command line of a Logs request.
BuildJournalctl ==
  /\ built.journalctl = None
  /\ built' = [built EXCEPT !.journalctl = Some(build_journalctl_command(built))]
  /\ UNCHANGED << cfg, temp, wire, listenerVars, now, sent, server, registered, connections, lock,
                  queue, workerVars, live, clientVars, reply, hist >>

\* ------------------------------------------------------------ specification

\* The steps of the worker task of host h.
WorkerStep(h) ==
  \/ WorkerRecv(h)
  \/ WorkerLock(h)
  \/ EstablishConnection(h)
  \/ WorkerConnectResult(h)
  \/ WorkerConnected(h)
  \/ WorkerErrored(h)
  \/ WorkerResult(h)

\* The transport calls of a Command, Upload or Download request return.
TransportStep(h) ==
  \/ TransportConnect(h)
  \/ TransportExec(h)

\* The transport calls of the health check and of EnsureScript return.
HealthStep(h) == TransportHealth(h)
ScriptStep(h) ==
  \/ TransportStat(h)
  \/ TransportUpload(h)
  \/ TransportChmod(h)

\* The steps of the handler task of connection c.
HandlerStep(c) ==
  \/ HandlerRecv(c)
  \/ HandlerReply(c)
StatusStep(c) ==
  \/ HandlerStatusList(c)
  \/ HandlerStatusInfo(c)

Startup ==
  \/ \E h \in Hosts : AddDevice(h)
  \/ StartServer

\* One device and one client that sends Shell and Tap requests to it: the
\* worker, its Session and its script memo.
Scenario ==
  [devices |-> {"A"}, clients |-> {"c1"},
   commands |-> {c \in Commands : c.name \in {"Shell", "Tap"} /\ c.device = "A"},
   exec_errors |-> ExecErrors,
   max_reqs |-> MaxReqs, max_ticks |-> MaxTicks, shutdown |-> FALSE]

Init == InitWith(Scenario)

Next ==
  \/ Startup
  \/ Tick
  \/ \E h \in Hosts : WorkerStep(h) \/ TransportStep(h) \/ HealthStep(h) \/ ScriptStep(h)
  \/ \E c \in Clients : Accept(c) \/ ClientSend(c) \/ HandlerStep(c)

Spec == Init /\ [][Next]_vars

\* One device and two concurrent clients, no clock: the order of the channel.
ScenarioOrder ==
  [devices |-> {"A"}, clients |-> Clients,
   commands |-> {c \in Commands : c.name \in {"Shell", "Tap"} /\ c.device = "A"},
   exec_errors |-> ExecErrors,
   max_reqs |-> OrderReqs, max_ticks |-> 0, shutdown |-> FALSE]

InitOrder == InitWith(ScenarioOrder)

NextOrder ==
  \/ Startup
  \/ \E h \in Hosts : WorkerStep(h) \/ TransportStep(h) \/ ScriptStep(h)
  \/ \E c \in Clients : Accept(c) \/ ClientSend(c) \/ HandlerStep(c)

SpecOrder == InitOrder /\ [][NextOrder]_vars

\* One device and one client that sends Shell requests, enough of them for
\* the backoff to reach its cap.
ScenarioRetries ==
  [devices |-> {"A"}, clients |-> {"c1"},
   commands |-> {c \in Commands : c.name = "Shell" /\ c.device = "A" /\ ~c.root},
   exec_errors |-> {"Broken pipe"},
   max_reqs |-> RetryReqs, max_ticks |-> MaxTicks, shutdown |-> FALSE]

InitRetries == InitWith(ScenarioRetries)

NextRetries ==
  \/ Startup
  \/ Tick
  \/ \E h \in Hosts : WorkerStep(h) \/ TransportStep(h) \/ HealthStep(h)
  \/ \E c \in Clients : Accept(c) \/ ClientSend(c) \/ HandlerStep(c)

SpecRetries == InitRetries /\ [][NextRetries]_vars

\* One device, two clients and a shutdown signal, after which the handlers
\* are dropped; the worker's steps are taken and its transport calls return.
ScenarioReplies ==
  [devices |-> {"A"}, clients |-> Clients,
   commands |-> {c \in Commands : c.name = "Shell" /\ c.device = "A" /\ ~c.root},
   exec_errors |-> {"Broken pipe"},
   max_reqs |-> ReplyReqs, max_ticks |-> 0, shutdown |-> TRUE]

InitReplies == InitWith(ScenarioReplies)

NextReplies ==
  \/ Startup
  \/ Signal
  \/ Shutdown
  \/ \E h \in Hosts : WorkerStep(h) \/ TransportStep(h)
  \/ \E c \in Clients : Accept(c) \/ ClientSend(c) \/ HandlerStep(c) \/ HandlerDropped(c)

SpecReplies ==
  /\ InitReplies
  /\ [][NextReplies]_vars
  /\ \A h \in Hosts : WF_vars(WorkerStep(h) \/ TransportStep(h))

\* Two devices and two clients that send Ping, ServerStatus and Shell
\* requests, one of them to a host the pool does not know.  Every task is
\* scheduled and the transport calls of B return; those of A need not.
ScenarioServer ==
  [devices |-> {"A", "B"}, clients |-> Clients,
   commands |-> {c \in Commands : c.name \in {"Ping", "ServerStatus", "Shell"} /\ ~c.root},
   exec_errors |-> {},
   max_reqs |-> ServerReqs, max_ticks |-> 0, shutdown |-> FALSE]

InitServer == InitWith(ScenarioServer)

NextServer ==
  \/ Startup
  \/ \E h \in Hosts : WorkerStep(h) \/ TransportStep(h)
  \/ \E c \in Clients : Accept(c) \/ ClientSend(c) \/ HandlerStep(c) \/ StatusStep(c)

SpecServer ==
  /\ InitServer
  /\ [][NextServer]_vars
  /\ \A h \in Hosts : WF_vars(WorkerStep(h))
  /\ WF_vars(TransportStep("B"))
  /\ \A c \in Clients : WF_vars(HandlerStep(c) \/ StatusStep(c))

\* One device and one client that sends one request of every device-targeting
\* variant to a host the pool does not know, and Shell requests to the device.
ScenarioUnknown ==
  [devices |-> {"A"}, clients |-> {"c1"},
   commands |-> DeviceCommandsOf(UnknownHost) \cup {Cmd("Shell", "A")},
   exec_errors |-> {},
   max_reqs |-> UnknownReqs, max_ticks |-> 0, shutdown |-> FALSE]

InitUnknown == InitWith(ScenarioUnknown)

NextUnknown ==
  \/ Startup
  \/ \E h \in Hosts : WorkerStep(h) \/ TransportStep(h)
  \/ \E c \in Clients : Accept(c) \/ ClientSend(c) \/ HandlerStep(c)

SpecUnknown == InitUnknown /\ [][NextUnknown]_vars

\* One device and one client that sends Install requests; a command or a
\* transfer may fail.
ScenarioInstall ==
  [devices |-> {"A"}, clients |-> {"c1"}, commands |-> InstallCommands,
   exec_errors |-> ExecErrors,
   max_reqs |-> InstallReqs, max_ticks |-> 0, shutdown |-> FALSE]

InitInstall == InitWith(ScenarioInstall)

NextInstall ==
  \/ Startup
  \/ \E h \in Hosts : WorkerStep(h) \/ TransportStep(h)
  \/ \E c \in Clients : Accept(c) \/ ClientSend(c) \/ HandlerStep(c)

SpecInstall == InitInstall /\ [][NextInstall]_vars

\* Transfers of two files, two of them under the same name.
TempCommands ==
  { [Cmd("Push", "A") EXCEPT !.path = "/build/app.rpm"],
    [Cmd("Install", "A") EXCEPT !.path = "/build/app.rpm"],
    [Cmd("Pull", "A") EXCEPT !.path = "/home/defaultuser/Downloads/app.rpm"],
    [Cmd("Push", "A") EXCEPT !.path = "/build/lib.rpm"] }

\* One device and two clients that send Push, Install and Pull requests at
\* the same time; a transfer may fail.
ScenarioTemp ==
  [devices |-> {"A"}, clients |-> {"c1", "c2"}, commands |-> TempCommands,
   exec_errors |-> {},
   max_reqs |-> TempReqs, max_ticks |-> 0, shutdown |-> FALSE]

InitTemp == InitWith(ScenarioTemp)

NextTemp ==
  \/ Startup
  \/ \E h \in Hosts : WorkerStep(h) \/ TransportStep(h)
  \/ \E c \in Clients : Accept(c) \/ ClientSend(c) \/ HandlerStep(c)

SpecTemp == InitTemp /\ [][NextTemp]_vars

\* Two devices and two clients that send Tap requests at the same time: the
\* workers of the two devices ensure the same script.
ScenarioScripts ==
  [devices |-> {"A", "B"}, clients |-> {"c1", "c2"},
   commands |-> {Cmd("Tap", "A"), Cmd("Tap", "B")},
   exec_errors |-> {},
   max_reqs |-> ScriptReqs, max_ticks |-> 0, shutdown |-> FALSE]

InitScripts == InitWith(ScenarioScripts)

NextScripts ==
  \/ Startup
  \/ \E h \in Hosts : WorkerStep(h) \/ TransportStep(h) \/ ScriptStep(h)
  \/ \E c \in Clients : Accept(c) \/ ClientSend(c) \/ HandlerStep(c)

SpecScripts == InitScripts /\ [][NextScripts]_vars

\* Two devices and two clients that send ServerStatus requests and Shell
\* requests to A, whose connects may fail: the status is read while the
\* worker of A reconnects.
ScenarioStatus ==
  [devices |-> {"A", "B"}, clients |-> {"c1", "c2"},
   commands |-> {Cmd("ServerStatus", ""), Cmd("Shell", "A")},
   exec_errors |-> {},
   max_reqs |-> StatusReqs, max_ticks |-> 0, shutdown |-> FALSE]

InitStatus == InitWith(ScenarioStatus)

NextStatus ==
  \/ Startup
  \/ \E h \in Hosts : WorkerStep(h) \/ TransportStep(h)
  \/ \E c \in Clients : Accept(c) \/ ClientSend(c) \/ HandlerStep(c) \/ StatusStep(c)

SpecStatus == InitStatus /\ [][NextStatus]_vars

\* One device and one client that sends KillServer and Shell requests, and a
\* SIGTERM or SIGINT that may arrive.  Every task of the daemon is scheduled
\* and the transport calls return; the signal is up to the environment.
ScenarioShutdown ==
  [devices |-> {"A"}, clients |-> {"c1"},
   commands |-> KillCommands \cup {Cmd("Shell", "A")},
   exec_errors |-> {},
   max_reqs |-> ShutdownReqs, max_ticks |-> 0, shutdown |-> TRUE]

InitShutdown == InitWith(ScenarioShutdown)

NextShutdown ==
  \/ Startup
  \/ Signal
  \/ Shutdown
  \/ \E h \in Hosts : WorkerStep(h) \/ TransportStep(h)
  \/ \E c \in Clients : Accept(c) \/ ClientSend(c) \/ HandlerStep(c) \/ HandlerDropped(c)

SpecShutdown ==
  /\ InitShutdown
  /\ [][NextShutdown]_vars
  /\ WF_vars(Startup)
  /\ WF_vars(Shutdown)
  /\ \A h \in Hosts : WF_vars(WorkerStep(h) \/ TransportStep(h))
  /\ \A c \in Clients : WF_vars(HandlerStep(c))

\* One device and one client that sends Tap, Swipe, Uninstall, Launch, Stop
\* and Logs requests whose arguments lie at and around the limits the
\* recipes check.
ScenarioValidate ==
  [devices |-> {"A"}, clients |-> {"c1"},
   commands |-> GestureCommands \cup AppCommands \cup LogsCommands,
   exec_errors |-> {},
   max_reqs |-> ValidateReqs, max_ticks |-> 0, shutdown |-> FALSE]

InitValidate == InitWith(ScenarioValidate)

NextValidate ==
  \/ Startup
  \/ \E h \in Hosts : WorkerStep(h) \/ TransportStep(h) \/ ScriptStep(h)
  \/ \E c \in Clients : Accept(c) \/ ClientSend(c) \/ HandlerStep(c)

SpecValidate == InitValidate /\ [][NextValidate]_vars

\* One device and one client that sends Logs requests with every combination
\* of lines, kernel, unit, clear and force.
ScenarioLogs ==
  [devices |-> {"A"}, clients |-> {"c1"}, commands |-> LogsArgCommands,
   exec_errors |-> {"Permission denied"},
   max_reqs |-> LogsReqs, max_ticks |-> 0, shutdown |-> FALSE]

InitLogs == InitWith(ScenarioLogs)

NextLogs ==
  \/ Startup
  \/ \E h \in Hosts : WorkerStep(h) \/ TransportStep(h)
  \/ \E c \in Clients : Accept(c) \/ ClientSend(c) \/ HandlerStep(c)

SpecLogs == InitLogs /\ [][NextLogs]_vars

\* A stream on which a client writes one Request after the other, some of
\* them at and beyond the largest length, and the handler that reads them.
ScenarioWire ==
  [devices |-> {}, clients |-> {}, commands |-> {}, exec_errors |-> {},
   max_reqs |-> 0, max_ticks |-> 0, shutdown |-> FALSE]

RECURSIVE SeqsUpTo(_, _)
SeqsUpTo(S, n) ==
  IF n = 0 THEN { << >> }
  ELSE SeqsUpTo(S, n - 1)
       \cup { Append(q, x) : q \in {p \in SeqsUpTo(S, n - 1) : Len(p) = n - 1}, x \in S }

InitWire ==
  /\ InitCore(ScenarioWire)
  /\ built = NoBuilt
  /\ wire \in { [NoWire EXCEPT !.msgs = m] : m \in SeqsUpTo(WireRequests, WireFrames) \ { << >> } }

NextWire ==
  \/ WireSend
  \/ WireRecv

SpecWire == InitWire /\ [][NextWire]_vars

\* One device and one client that sends Shell and Install requests, and a
\* worker task that may end at any moment.  Every task that still exists is
\* scheduled and the transport calls return.
ScenarioGone ==
  [devices |-> {"A"}, clients |-> {"c1"},
   commands |-> {Cmd("Shell", "A"), [Cmd("Install", "A") EXCEPT !.path = "/build/app.rpm"]},
   exec_errors |-> {},
   max_reqs |-> GoneReqs, max_ticks |-> 0, shutdown |-> FALSE]

InitGone == InitWith(ScenarioGone)

NextGone ==
  \/ Startup
  \/ \E h \in Hosts : WorkerStep(h) \/ TransportStep(h) \/ WorkerStopped(h)
  \/ \E c \in Clients : Accept(c) \/ ClientSend(c) \/ HandlerStep(c)

SpecGone ==
  /\ InitGone
  /\ [][NextGone]_vars
  /\ WF_vars(Startup)
  /\ \A h \in Hosts : WF_vars(WorkerStep(h) \/ TransportStep(h))
  /\ \A c \in Clients : WF_vars(HandlerStep(c))

\* One device and one client that sends Shell requests whose command runs
\* on the device and exits with a status that is not 0.
ScenarioExit ==
  [devices |-> {"A"}, clients |-> {"c1"},
   commands |-> {Cmd("Shell", "A"), [Cmd("Shell", "A") EXCEPT !.root = TRUE]},
   exec_errors |-> {error_msg(exit) : exit \in Exits},
   max_reqs |-> ExitReqs, max_ticks |-> 0, shutdown |-> FALSE]

InitExit == InitWith(ScenarioExit)

NextExit ==
  \/ Startup
  \/ \E h \in Hosts : WorkerStep(h) \/ TransportStep(h)
  \/ \E c \in Clients : Accept(c) \/ ClientSend(c) \/ HandlerStep(c)

SpecExit == InitExit /\ [][NextExit]_vars

\* The device without a root password and one client that sends it Shell
\* requests, as root and not, and Logs requests, whose command runs as root.
ScenarioRoot ==
  [devices |-> {"B"}, clients |-> {"c1"},
   commands |-> {Cmd("Shell", "B"), [Cmd("Shell", "B") EXCEPT !.root = TRUE],
                 Cmd("Logs", "B")},
   exec_errors |-> {"Broken pipe"},
   max_reqs |-> RootReqs, max_ticks |-> 0, shutdown |-> FALSE]

InitRoot == InitWith(ScenarioRoot)

NextRoot ==
  \/ Startup
  \/ \E h \in Hosts : WorkerStep(h) \/ TransportStep(h)
  \/ \E c \in Clients : Accept(c) \/ ClientSend(c) \/ HandlerStep(c)

SpecRoot == InitRoot /\ [][NextRoot]_vars

\* Device A is enabled and device B is disabled in the configuration
\* (main.rs 53: only the enabled devices are added to the pool); one client
\* sends Shell and Tap requests to both.
ScenarioDisabled ==
  [devices |-> {"A"}, clients |-> {"c1"},
   commands |-> {Cmd("Shell", "A"), Cmd("Shell", "B"),
                 [Cmd("Shell", "B") EXCEPT !.root = TRUE], Cmd("Tap", "B")},
   exec_errors |-> {},
   max_reqs |-> DisabledReqs, max_ticks |-> 0, shutdown |-> FALSE]

InitDisabled == InitWith(ScenarioDisabled)

NextDisabled ==
  \/ Startup
  \/ \E h \in Hosts : WorkerStep(h) \/ TransportStep(h)
  \/ \E c \in Clients : Accept(c) \/ ClientSend(c) \/ HandlerStep(c)

SpecDisabled == InitDisabled /\ [][NextDisabled]_vars

\* A root credential, a command and the unit, since and grep arguments of a
\* Logs request: every string of at most EscapeLen characters out of a letter,
\* the single quote and the backslash; the command lines built from them.
EscapeChars == {"a", "'", "\\"}
EscapeStrings == SeqsUpTo(EscapeChars, EscapeLen)

InitEscape ==
  /\ InitCore(ScenarioWire)
  /\ wire = NoWire
  /\ \E p \in EscapeStrings \ { << >> }, q \in EscapeStrings :
       built = [NoBuilt EXCEPT !.password = p, !.command = q,
                               !.unit = Some(q), !.since = Some(p), !.grep = Some(q)]

NextEscape ==
  \/ ExecAsDevelSu
  \/ BuildJournalctl

SpecEscape == InitEscape /\ [][NextEscape]_vars

\* The arguments of Logs requests that passed the checks of execute_logs:
\* lines above 0, kernel without unit, a priority that is a level or holds a
\* quote or a semicolon, and unit, since and grep out of the strings of at
\* most JournalLen letters and quotes.
JournalLines == {1, 10, 100, 4096}
JournalPriorities ==
  { << "3" >>, << "e","r","r" >>, << "3","'" >>, << "3",";","i","d" >> }
JournalStrings == SeqsUpTo({"a", "'"}, JournalLen)
OptionOf(S) == { None } \cup { Some(x) : x \in S }

InitJournal ==
  /\ InitCore(ScenarioWire)
  /\ wire = NoWire
  /\ \E k \in BOOLEAN, n \in JournalLines, p \in OptionOf(JournalPriorities),
        u \in OptionOf(JournalStrings), si \in OptionOf(JournalStrings),
        g \in OptionOf(JournalStrings) :
       /\ ~(k /\ IsSome(u))
       /\ built = [NoBuilt EXCEPT !.kernel = k, !.lines = n, !.priority = p,
                                  !.unit = u, !.since = si, !.grep = g]

NextJournal == BuildJournalctl

SpecJournal == InitJournal /\ [][NextJournal]_vars

\* A pool without devices, or a pool of one device whose connects and
\* commands may fail, and one client that sends Ping and Shell requests.
ScenarioPing ==
  [devices |-> {"A"}, clients |-> {"c1"},
   commands |-> {Cmd("Ping", ""), Cmd("Shell", "A")},
   exec_errors |-> {"Broken pipe"},
   max_reqs |-> PingReqs, max_ticks |-> 0, shutdown |-> FALSE]
ScenarioPingAlone == [ScenarioPing EXCEPT !.devices = {}]

InitPing == InitWith(ScenarioPing) \/ InitWith(ScenarioPingAlone)

NextPing ==
  \/ Startup
  \/ \E h \in Hosts : WorkerStep(h) \/ TransportStep(h)
  \/ \E c \in Clients : Accept(c) \/ ClientSend(c) \/ HandlerStep(c)

SpecPing == InitPing /\ [][NextPing]_vars

\* Error messages of failed operations: at most ClassifyLen fragments, one
\* after the other, out of keywords in either case, parts of keywords and
\* texts without a keyword; the worker classifies each.
ErrorFragments ==
  { << "c","o","n","n","e","c","t","i","o","n" >>,
    << " ","r","e","f","u","s","e","d" >>,
    << "D","i","s","c","o","n","n","e","c","t" >>,
    << "t","i","m","e","o","u","t" >>,
    << "T","I","M","E","O","U","T" >>,
    << "b","r","o","k","e","n" >>,
    << " ","p","i","p","e" >>,
    << "r","e","s","e","t"," ","b","y"," ","p","e","e","r" >>,
    << "c","h","a","n","n","e","l"," ","0",":"," ","o","p","e","n"," ","f","a","i","l","e","d" >>,
    << "s","e","s","s","i","o","n" >>,
    << " ","c","l","o","s","e","d" >>,
    << "e","o","f" >>,
    << "E","O","F" >>,
    << "e" >>,
    << "o","f" >>,
    << "c","o","m","m","a","n","d"," ","n","o","t"," ","f","o","u","n","d" >>,
    << "P","e","r","m","i","s","s","i","o","n"," ","d","e","n","i","e","d" >>,
    << "c","l","o","s" >>,
    << "e","d" >> }
RECURSIVE Concat(_)
Concat(parts) == IF parts = << >> THEN << >> ELSE Head(parts) \o Concat(Tail(parts))
ErrorTexts == { Concat(parts) : parts \in SeqsUpTo(ErrorFragments, ClassifyLen) }

InitClassify ==
  /\ InitCore(ScenarioWire)
  /\ wire = NoWire
  /\ \E text \in ErrorTexts : built = [NoBuilt EXCEPT !.error = text]

NextClassify == ClassifyError

SpecClassify == InitClassify /\ [][NextClassify]_vars

\* A stream on which Requests and well-formed frames that hold no Request
\* follow one another, and the handler that reads them.
WirePlans ==
  { WireRequest(1, "Ping", 0), WireRequest(42, "Shell", 3) }
  \cup { Malformed(k) : k \in MalformedKinds }

InitMalformed ==
  /\ InitCore(ScenarioWire)
  /\ built = NoBuilt
  /\ wire \in { [NoWire EXCEPT !.msgs = m] : m \in SeqsUpTo(WirePlans, WireFrames) \ { << >> } }

NextMalformed ==
  \/ WireSendRequest
  \/ WireSendMalformed
  \/ WireRecv

SpecMalformed == InitMalformed /\ [][NextMalformed]_vars

\* --------------------------------------------------------------- properties

\* C1: the worker of a host takes the requests in the order in which they
\* entered its channel, one at a time: the channel holds the requests not yet
\* dequeued in entry order, the request in progress is the oldest one not yet
\* answered, every request before it has been answered, and a transport call
\* is only ever in flight for the request in progress.
SerialFifo ==
  \A h \in registered :
    LET hs == hist[h] IN
    /\ \A i \in 1..Len(queue[h]) : queue[h][i].ticket = hs.dequeued + i
    /\ hs.enqueued = hs.dequeued + Len(queue[h])
    /\ IsSome(cur[h]) =>
         Unwrap(cur[h]).ticket = hs.dequeued /\ hs.replies = hs.dequeued - 1
    /\ cur[h] = None => hs.replies = hs.dequeued /\ wpc[h] = "recv"
    /\ wpc[h] # "recv" => IsSome(cur[h])

\* A second request is in a transport call while a later one waits.
SerialFifoWitness ==
  /\ wpc["A"] \in TransportPcs
  /\ hist["A"].dequeued >= 2
  /\ queue["A"] # <<>>

\* C2: at most one Session of a host exists at any time; the Session the
\* worker holds is that one, and the worker is opening a Session only while
\* none exists.
SessionUnique ==
  \A h \in Hosts :
    /\ Cardinality(live[h]) <= 1
    /\ IsSome(session[h]) => live[h] = {Unwrap(session[h])}
    /\ wpc[h] \in {"lock_connecting", "cs_connecting", "connecting"} => live[h] = {}

\* A Session was lost and the worker holds the one it opened after it.
SessionUniqueWitness ==
  /\ IsSome(session["A"])
  /\ hist["A"].lost >= 1
  /\ connections["A"].stats.connect_attempts >= 2

\* C3: whenever a reader can take the lock, the recorded state of a host is
\* Connected if and only if its worker holds a Session.
StateMatchesSession ==
  \A h \in registered :
    lock # h => ((connections[h].state.tag = "Connected") <=> IsSome(session[h]))

\* The error message, lowercased, contains a connectivity keyword.
HasKeyword(e) ==
  \E p \in connection_error_patterns :
    contains(to_lowercase(Chars[e]), Chars[p])

\* C4: when the operation of a request fails, the Session, last_health_check
\* and uploaded_scripts are cleared and the state becomes Disconnected if the
\* message holds a connectivity keyword; otherwise they and the Connected
\* state stay as they were; the failure is the reply of the request.
OpFailureHandling ==
  [][\A h \in registered :
       /\ ( /\ wpc[h] \in {"exec", "es_stat", "es_upload", "es_chmod"}
            /\ wpc'[h] = "lock_result"
            /\ ~Unwrap(result'[h]).ok ) =>
            IF HasKeyword(Unwrap(result'[h]).error)
            THEN /\ session'[h] = None
                 /\ last_health_check'[h] = None
                 /\ uploaded_scripts'[h] = {}
            ELSE /\ IsSome(session[h])
                 /\ session'[h] = session[h]
                 /\ last_health_check'[h] = last_health_check[h]
                 /\ uploaded_scripts'[h] = uploaded_scripts[h]
       /\ ( /\ wpc[h] = "cs_result"
            /\ wpc'[h] = "recv"
            /\ ~Unwrap(result[h]).ok ) =>
            LET r == Unwrap(result[h])
                c == Unwrap(cur[h]).client IN
            /\ connections'[h].state =
                 IF HasKeyword(r.error) THEN Disconnected ELSE connections[h].state
            /\ ~HasKeyword(r.error) => connections[h].state.tag = "Connected"
            /\ ReceiverAlive(c) => reply'[c] = Some(r)
    ]_vars

\* In one Session a failure without a keyword was followed by one with a
\* keyword, which is recorded.
OpFailureHandlingWitness ==
  /\ wpc["A"] = "recv"
  /\ connections["A"].state = Disconnected
  /\ connections["A"].stats.connect_attempts = 1
  /\ connections["A"].stats.failed_commands = 2
  /\ connections["A"].stats.last_error = Some("Broken pipe")

\* C5 as stated: a Session sees at most one stat check of a script.
ScriptCheckedOnce ==
  \A h \in Hosts : hist[h].stat_checks <= 1

\* C5: an EnsureScript that starts in a Session in which the script has been
\* confirmed present is answered ScriptOk without a transport call; any other
\* EnsureScript (the first of a Session, or one after a failed one) starts
\* with the stat check.
ScriptMemo ==
  [][\A h \in registered :
       ( /\ wpc[h] \in {"recv", "health", "cs_connected"}
         /\ wpc'[h] \in {"es_stat", "lock_result"}
         /\ IsSome(session'[h])
         /\ Unwrap(cur'[h]).operation.kind = "EnsureScript" ) =>
         IF hist[h].ensured >= 1
         THEN /\ wpc'[h] = "lock_result"
              /\ result'[h] = Some(Ok("ScriptOk"))
              /\ hist'[h].stat_checks = hist[h].stat_checks
         ELSE /\ wpc'[h] = "es_stat"
              /\ hist'[h].stat_checks = hist[h].stat_checks + 1
    ]_vars

\* An EnsureScript was answered from the memo.
ScriptMemoWitness ==
  /\ hist["A"].memo_hits >= 1
  /\ hist["A"].ensured = 1

\* C6: uploaded_scripts is empty while the worker holds no Session, and it
\* holds a name only if an EnsureScript of the current Session reached its
\* end.
ScriptsRecorded ==
  \A h \in Hosts :
    /\ session[h] = None => uploaded_scripts[h] = {}
    /\ uploaded_scripts[h] # {} => hist[h].ensured >= 1

\* The script is recorded after an EnsureScript that failed and one that
\* reached its end.
ScriptsRecordedWitness ==
  /\ "tap" \in uploaded_scripts["A"]
  /\ hist["A"].stat_checks = 2
  /\ hist["A"].ensured = 1

\* The offset of the recorded next_retry from the instant it was computed at.
RetryOffset(h) == Unwrap(connections[h].state.next_retry) - hist[h].failed_at

\* C7 as stated: after k consecutive failed connects the recorded offset is
\* min(INITIAL * 2^k, CAP).
BackoffLawAsStated ==
  \A h \in registered :
    connections[h].state.tag = "Errored" =>
      RetryOffset(h) = Min(INITIAL_BACKOFF_MS * 2^(hist[h].fails), MAX_BACKOFF_MS)

\* C7: after k >= 1 consecutive failed connects the recorded offset is
\* min(INITIAL * 2^(k-1), CAP) and the backoff kept for the next failure is
\* min(INITIAL * 2^k, CAP); a successful connect resets the backoff to INITIAL.
BackoffLaw ==
  \A h \in registered :
    /\ connections[h].state.tag = "Errored" =>
         /\ hist[h].fails >= 1
         /\ RetryOffset(h) =
              Min(INITIAL_BACKOFF_MS * 2^(hist[h].fails - 1), MAX_BACKOFF_MS)
    /\ wpc[h] = "recv" =>
         current_backoff_ms[h] =
           Min(INITIAL_BACKOFF_MS * 2^(hist[h].fails), MAX_BACKOFF_MS)
    /\ IsSome(session[h]) => current_backoff_ms[h] = INITIAL_BACKOFF_MS

\* The recorded offset is the cap, after the clock has moved.
BackoffLawWitness ==
  /\ "A" \in registered
  /\ connections["A"].state.tag = "Errored"
  /\ hist["A"].fails >= 7
  /\ hist["A"].failed_at > 0
  /\ RetryOffset("A") = MAX_BACKOFF_MS

\* C8: a request in progress is the one request not yet answered and an idle
\* worker has answered every request it dequeued; a reply is the result the
\* worker holds (the connect failure, or the result of the operation), handed
\* to the requester if it still waits and dropped otherwise, with the stats
\* updated and the worker back at its channel either way; and every request
\* that entered the channel is eventually answered.
ReplyOnce ==
  /\ [](\A h \in registered :
          hist[h].replies = hist[h].dequeued - (IF IsSome(cur[h]) THEN 1 ELSE 0))
  /\ [][\A h \in registered :
          hist'[h].replies # hist[h].replies =>
            LET c == Unwrap(cur[h]).client
                r == Unwrap(result[h]) IN
            /\ hist'[h].replies = hist[h].replies + 1
            /\ wpc'[h] = "recv"
            /\ IF hpc[c] = "await"
               THEN reply'[c] = Some(r) /\ hist'[h].dropped = hist[h].dropped
               ELSE reply' = reply /\ hist'[h].dropped = hist[h].dropped + 1
            /\ wpc[h] = "cs_errored" => ~r.ok /\ r.error \in ConnectErrors
            /\ wpc[h] = "cs_result" =>
                 connections'[h].stats.successful_commands
                   + connections'[h].stats.failed_commands
                 = connections[h].stats.successful_commands
                   + connections[h].stats.failed_commands + 1
     ]_vars
  /\ \A k \in 1..ReplyReqs :
       (hist["A"].enqueued >= k) ~> (hist["A"].replies >= k)

\* A reply was dropped and the worker went on to the next request.
ReplyOnceWitness ==
  /\ hist["A"].dropped >= 1
  /\ hist["A"].dequeued > hist["A"].dropped
  /\ hist["A"].replies = 2

\* The handler of connection c waits for the reply of a request for device A.
WaitsForA(c) ==
  hpc[c] = "await" /\ Unwrap(hreq[c]).command.device = "A"

\* The handler of connection c has nothing to do.
HandlerIdle(c) ==
  hpc[c] = "none" \/ (hpc[c] = "recv" /\ inbox[c] = <<>>)

\* C9: a worker does not hold the lock of the pool while one of its transport
\* calls is in flight, and even if the transport calls of A never return,
\* every handler keeps coming back to having answered all it received or to
\* waiting for A: a Ping, a ServerStatus or a request for another device that
\* a handler has taken up is answered.
NoLockAcrossTransport ==
  /\ [](\A h \in Hosts : wpc[h] \in TransportPcs => lock # h)
  /\ \A c \in Clients : []<>(HandlerIdle(c) \/ WaitsForA(c))

\* The first request, for A, is in a transport call and unanswered; the
\* second request, sent after it and not for A, has been answered.
NoLockAcrossTransportWitness ==
  /\ wpc["A"] \in TransportPcs
  /\ \E c, d \in Clients :
       /\ hpc[c] = "await"
       /\ Unwrap(hreq[c]).id = 1
       /\ Len(outbox[d]) = 1
       /\ outbox[d][1].id = 2
       /\ recvd[d][1].command.name \in {"ServerStatus", "Shell"}

\* C10: on each connection the Responses written answer the Requests received
\* one for one and in order, each with the id of its Request; a Response is
\* missing only for the Request being processed.
ResponsePerRequest ==
  \A c \in Clients :
    /\ Len(outbox[c]) <= Len(recvd[c])
    /\ \A i \in 1..Len(outbox[c]) : outbox[c][i].id = recvd[c][i].id
    /\ Len(recvd[c]) - Len(outbox[c]) =
         IF hpc[c] \in {"await", "status_list", "status_info"} THEN 1 ELSE 0

\* A connection has two Requests answered, a failed one among them.
ResponsePerRequestWitness ==
  \E c \in Clients :
    /\ Len(outbox[c]) = 2
    /\ outbox[c][2].id = 2
    /\ \E i \in 1..2 : outbox[c][i].result.tag = "Error"

\* The handler of connection c takes the request at the head of its inbox.
Receives(c) ==
  /\ hpc[c] = "recv"
  /\ inbox[c] # <<>>
  /\ inbox'[c] = Tail(inbox[c])
  /\ recvd'[c] = Append(recvd[c], Head(inbox[c]))

\* The Response the handler of connection c wrote in this step.
Written(c) == outbox'[c][Len(outbox'[c])]

\* C11: a request whose first pool operation is an Exec (Shell), an Upload
\* (Push), a Download (Pull) or an EnsureScript (Tap) for a host the pool does
\* not know is answered at once with an Error of kind DeviceNotFound whose
\* message contains the host; nothing enters a channel and no worker, queue,
\* connection or Session changes.
UnknownHostFails ==
  [][\A c \in Clients :
       LET request == Head(inbox[c]) IN
       (/\ Receives(c)
        /\ request.command.name \in {"Shell", "Push", "Pull", "Tap"}
        /\ request.command.device \notin registered)
       => /\ queue' = queue
          /\ workerVars' = workerVars
          /\ connections' = connections
          /\ live' = live
          /\ hist' = hist
          /\ Len(outbox'[c]) = Len(outbox[c]) + 1
          /\ Written(c).id = request.id
          /\ Written(c).result.tag = "Error"
          /\ Written(c).result.kind = "DeviceNotFound"
          /\ contains(Chars[Written(c).result.message], Chars[request.command.device])]_vars

\* The Response to the i-th request of connection c is an Error of this kind.
AnsweredError(c, i, kind) ==
  /\ i <= Len(outbox[c])
  /\ outbox[c][i].result.tag = "Error"
  /\ outbox[c][i].result.kind = kind

UnknownHostFailsWitness ==
  /\ Len(recvd["c1"]) = 2
  /\ recvd["c1"][1].command.name = "Push"
  /\ recvd["c1"][2].command = Cmd("Shell", UnknownHost)
  /\ AnsweredError("c1", 1, "DeviceNotFound")
  /\ AnsweredError("c1", 2, "DeviceNotFound")
  /\ hist["A"].enqueued = 0

\* C12: every device-targeting request with valid arguments for a host the
\* pool does not know is answered with an Error of kind DeviceNotFound.
UnknownHostNeverSucceeds ==
  \A c \in Clients : \A i \in 1..Len(outbox[c]) :
    recvd[c][i].command \in DeviceCommandsOf(UnknownHost)
      => AnsweredError(c, i, "DeviceNotFound")

\* The handler of connection c takes the reply of the operation it waits for.
Replying(c) ==
  /\ hpc[c] = "await"
  /\ IsSome(reply[c])
  /\ reply'[c] = None

\* In this step the handler of connection c sends exactly this operation to
\* the worker of host h.
Sends(c, h, op) ==
  /\ Len(queue'[h]) = Len(queue[h]) + 1
  /\ queue'[h][Len(queue'[h])].operation = op
  /\ queue'[h][Len(queue'[h])].client = c

\* C13: when the install step of an Install fails, the handler still sends
\* the cleanup (rm -f of the uploaded file) to the worker, and the failure of
\* the install step is what the reply carries.
InstallCleanupAfterFailure ==
  [][\A c \in Clients :
       (/\ Replying(c)
        /\ Unwrap(hreq[c]).command.name = "Install"
        /\ hstep[c] = 2
        /\ ~Unwrap(reply[c]).ok)
       => Sends(c, Unwrap(hreq[c]).command.device,
                OpCommand(cleanup_command(
                  downloads_path(file_name(Unwrap(hreq[c]).command.path))), FALSE))]_vars

\* Operations of connection c that a worker holds or has in its channel.
Outstanding(c) ==
  Cardinality({<<h, i>> \in Hosts \X (1..CHANNEL_CAPACITY) :
                 i <= Len(queue[h]) /\ queue[h][i].client = c})
  + Cardinality({h \in Hosts : IsSome(cur[h]) /\ Unwrap(cur[h]).client = c})

\* C14: an Install sends the worker the Upload of the local temp file to
\* /home/defaultuser/Downloads/<name>, after its successful reply the install
\* command as non-root, after its successful reply the rm -f of that path as
\* non-root, and nothing else; a step is sent only when no other operation of
\* the connection is outstanding.  Whatever the rm returns, the Response is
\* Success with the Lines of the install step.
InstallSequence ==
  /\ [](\A c \in Clients : Outstanding(c) <= 1)
  /\ [][\A c \in Clients :
         LET command == IF hpc[c] = "recv" THEN Head(inbox[c]).command
                        ELSE Unwrap(hreq[c]).command
             h == command.device
             remote == downloads_path(file_name(command.path)) IN
         /\ (Receives(c) /\ command.name = "Install")
               => /\ Outstanding(c) = 0
                  /\ Sends(c, h, OpUpload(local_temp(file_name(command.path)), remote))
         /\ (Replying(c) /\ command.name = "Install" /\ Unwrap(reply[c]).ok)
               => /\ Outstanding(c) = 0
                  /\ hstep[c] = 1 => Sends(c, h, OpCommand(install_command(remote), FALSE))
                  /\ hstep[c] = 2 => Sends(c, h, OpCommand(cleanup_command(remote), FALSE))
         /\ (Replying(c) /\ command.name = "Install" /\ hstep[c] = 3)
               => /\ queue' = queue
                  /\ Written(c).id = Unwrap(hreq[c]).id
                  /\ Written(c).result =
                       SuccessAs("Lines", install_command(remote))]_vars

InstallSequenceWitness ==
  /\ "A" \in registered
  /\ Len(outbox["c1"]) = 1
  /\ recvd["c1"][1].command.path = "/build/app.rpm"
  /\ outbox["c1"][1].result =
       SuccessAs("Lines", "ru.omp.APM.Install /home/defaultuser/Downloads/app.rpm")
  /\ connections["A"].stats.successful_commands = 2
  /\ connections["A"].stats.failed_commands = 1
  /\ hist["A"].dequeued = 3

\* The i-th request of connection c is a KillServer and its Response is written.
KillServerAnswered(c, i) ==
  /\ i <= Len(outbox[c])
  /\ recvd[c][i].command.name = "KillServer"

\* C15: a KillServer request is answered with Success, and after it the
\* listener leaves the accept loop, accepts nothing more and removes the
\* socket file.
KillServerStops ==
  /\ [](\A c \in Clients : \A i \in 1..ShutdownReqs :
          KillServerAnswered(c, i) => outbox[c][i].result.tag = "Success")
  /\ \A c \in Clients :
       (\E i \in 1..ShutdownReqs : KillServerAnswered(c, i))
         ~> (server = "stopped" /\ ~socket_file)

\* C16: a delivered SIGTERM or SIGINT ends the accept loop; from then on no
\* connection is accepted and the socket file is gone when start_server has
\* returned; the step that ends the loop leaves every handler, its inbox and
\* the reply it waits for as they were.
SignalStops ==
  /\ (shutdown_signal > 0) ~> (server = "stopped")
  /\ [](server = "stopped" => ~socket_file)
  /\ [][server = "stopped" => \A c \in Clients : hpc[c] = "none" => hpc'[c] = "none"]_vars
  /\ [][(server = "listening" /\ server' = "stopped")
          => (clientVars' = clientVars /\ reply' = reply /\ queue' = queue)]_vars

\* The loop has ended while a handler waited for a reply, and the handler
\* has written its Response afterwards.
SignalStopsWitness ==
  /\ server = "stopped"
  /\ signals = "done"
  /\ ~socket_file
  /\ hpc["c1"] = "recv"
  /\ Len(outbox["c1"]) = 1
  /\ recvd["c1"][1].command.name = "Shell"
  /\ hist["A"].replies = 1
  /\ hist["A"].dropped = 0

\* The frames of the requests i..j of the stream, as the client wrote them.
RECURSIVE Frames(_, _, _)
Frames(msgs, i, j) ==
  IF i > j THEN << >> ELSE send_message(<< >>, msgs[i]) \o Frames(msgs, i + 1, j)

\* The length of the JSON encoding of a request.
JsonLen(msg) == Size(to_vec(msg))

OverLimit(command) ==
  CASE command.name = "Tap" -> {v \in {command.x, command.y} : v > 4096}
    [] command.name = "Swipe" /\ command.mode = "Coords" ->
         {v \in {command.x, command.y, command.x2, command.y2} : v > 4096}
    [] OTHER -> {}

\* The script a gesture request needs on the device.
ScriptOf(command) == IF command.name = "Tap" THEN "tap" ELSE "swipe"

\* C18: a Tap is rejected exactly when x > 4096 or y > 4096 and a
\* coordinate-mode Swipe exactly when one of its coordinates is > 4096 (4096
\* is accepted, and so is every Swipe by direction).  A rejected request is
\* answered at once with an Error of kind CommandFailed or InvalidRequest
\* whose message contains "out of range", and nothing is sent to the worker;
\* an accepted one is not answered yet and its EnsureScript is sent.
CoordsChecked ==
  [][\A c \in Clients :
       LET request == Head(inbox[c]) IN
       (/\ Receives(c)
        /\ request.command.name \in {"Tap", "Swipe"}
        /\ request.command.device \in registered)
       => IF OverLimit(request.command) # {}
          THEN /\ queue' = queue
               /\ hist' = hist
               /\ workerVars' = workerVars
               /\ Len(outbox'[c]) = Len(outbox[c]) + 1
               /\ Written(c).id = request.id
               /\ Written(c).result.tag = "Error"
               /\ Written(c).result.kind \in {"CommandFailed", "InvalidRequest"}
               /\ contains(Chars[Written(c).result.message], Chars["out of range"])
          ELSE /\ outbox' = outbox
               /\ Sends(c, request.command.device,
                        OpEnsureScript(ScriptOf(request.command)))]_vars

CoordsCheckedWitness ==
  /\ Len(recvd["c1"]) = 1
  /\ recvd["c1"][1].command =
       [Cmd("Swipe", "A") EXCEPT !.mode = "Coords", !.x = 0, !.y = 0, !.x2 = 0,
                                 !.y2 = MAX_COORD + 1]
  /\ "A" \in registered
  /\ AnsweredError("c1", 1, "CommandFailed")
  /\ contains(Chars[outbox["c1"][1].result.message], Chars["out of range"])
  /\ hist["A"].enqueued = 0

\* An app or package name the validation of the specification rejects: it is
\* empty, longer than 255 characters, or has no '.'.
InvalidName(name) ==
  \/ Len(name) = 0
  \/ Len(name) > 255
  \/ \A i \in 1..Len(name) : name[i] # "."

\* C19: an Uninstall, Launch or Stop whose name is empty, longer than 255
\* characters or without '.' is answered at once with an Error and nothing is
\* sent to the worker; with every other name the request is accepted: it is
\* not answered yet and its command is sent to the worker.
NamesChecked ==
  [][\A c \in Clients :
       LET request == Head(inbox[c]) IN
       (/\ Receives(c)
        /\ request.command.name \in {"Uninstall", "Launch", "Stop"}
        /\ request.command.device \in registered)
       => IF InvalidName(request.command.app)
          THEN /\ queue' = queue
               /\ hist' = hist
               /\ Len(outbox'[c]) = Len(outbox[c]) + 1
               /\ Written(c).id = request.id
               /\ Written(c).result.tag = "Error"
          ELSE /\ outbox' = outbox
               /\ Len(queue'[request.command.device])
                    = Len(queue[request.command.device]) + 1]_vars

\* C20: a Logs request with clear and without force is answered at once with
\* an Error of kind InvalidRequest and nothing is sent to the worker; with
\* clear and force the rotate-and-vacuum command is sent to the worker as
\* root, and when it succeeds the Response is Success with its Lines.
LogsClearChecked ==
  [][\A c \in Clients :
       /\ LET request == Head(inbox[c]) IN
          (/\ Receives(c)
           /\ request.command.name = "Logs"
           /\ request.command.clear
           /\ request.command.device \in registered)
          => IF ~request.command.force
             THEN /\ queue' = queue
                  /\ hist' = hist
                  /\ workerVars' = workerVars
                  /\ Len(outbox'[c]) = Len(outbox[c]) + 1
                  /\ Written(c).id = request.id
                  /\ Written(c).result.tag = "Error"
                  /\ Written(c).result.kind = "InvalidRequest"
             ELSE /\ outbox' = outbox
                  /\ Sends(c, request.command.device,
                           OpCommand("journalctl --rotate && journalctl --vacuum-time=1s", TRUE))
       /\ (/\ Replying(c)
           /\ Unwrap(hreq[c]).command.name = "Logs"
           /\ Unwrap(hreq[c]).command.clear
           /\ Unwrap(reply[c]).ok)
          => /\ Len(outbox'[c]) = Len(outbox[c]) + 1
             /\ Written(c).result.tag = "Success"
             /\ Written(c).result.variant = "Lines"
             /\ Written(c).result.output
                  = "journalctl --rotate && journalctl --vacuum-time=1s"
             /\ queue' = queue]_vars

\* The handler reads, in this step, the frame of the i-th entry of the plan.
WireReads(i) ==
  /\ ~wire.closed
  /\ wire.stream # << >>
  /\ wire'.sent = wire.sent
  /\ i = wire.responses + 1
  /\ i <= wire.sent

\* C21: a well-formed frame whose payload is no Request is answered: the
\* handler writes a Response (an Error of kind InvalidRequest) and goes on
\* reading the connection.
MalformedAnswered ==
  [][\A i \in 1..Len(wire.msgs) :
       (WireReads(i) /\ wire.msgs[i].name = "Malformed")
       => /\ wire'.responses = wire.responses + 1
          /\ ~wire'.closed]_vars

\* The Response to the i-th request of connection c reports that the worker
\* of the device is gone.
WorkerGoneReported(c, i) ==
  /\ i <= Len(outbox[c])
  /\ outbox[c][i].result.tag = "Error"
  /\ outbox[c][i].result.message
       \in {"Device {} command queue closed", "Device {} command processor died"}

\* C22: when the worker of a registered host has stopped, a request for that
\* host does not wait for ever: it is answered, and the answer is an Error of
\* kind ServerError.
WorkerGoneIsServerError ==
  /\ [](\A c \in Clients : \A i \in 1..GoneReqs :
          WorkerGoneReported(c, i) => outbox[c][i].result.kind = "ServerError")
  /\ \A c \in Clients : []<>(hpc[c] # "await")

\* With a stopped worker no handler waits for a reply that cannot come.
WorkerGoneNeverBlocks ==
  /\ [](\A c \in Clients :
          (hpc[c] = "await" /\ QueueClosed(Unwrap(hreq[c]).command.device))
            => IsSome(reply[c]))
  /\ \A c \in Clients : []<>(hpc[c] # "await")

\* The diagnostic of a failed command: its stderr, else its stdout, else
\* the message made of its exit code.
Diagnostic(exit) ==
  CASE exit.stderr # << >> -> exit.stderr[1]
    [] exit.stdout # << >> -> exit.stdout[1]
    [] OTHER -> "Command failed with exit code {}"

\* C23: a Shell command that ran on the device and exited with a status that
\* is not 0 is answered with an Error whose message is its stderr, else its
\* stdout, else the message made of the exit code, and whose kind is
\* CommandFailed whatever that text is.
ExitIsCommandFailed ==
  /\ \A exit \in Exits : error_msg(exit) = Diagnostic(exit)
  /\ \A c \in Clients : \A i \in 1..Len(outbox[c]) :
       (/\ recvd[c][i].command.name = "Shell"
        /\ outbox[c][i].result.tag = "Error"
        /\ outbox[c][i].result.message \in {Diagnostic(exit) : exit \in Exits})
       => outbox[c][i].result.kind = "CommandFailed"

\* The worker of host h holds an as-root command and the device has no root
\* password.
RootWithoutPassword(h) ==
  /\ IsSome(cur[h])
  /\ Unwrap(cur[h]).operation.kind = "Command"
  /\ Unwrap(cur[h]).operation.as_root
  /\ Devices[h].root_password = ""

\* C24: an as-root operation on a device without a root password never
\* reaches the transport; it fails with the 'root password not configured'
\* error, which counts as a failed command and is recorded as last_error,
\* while the Session and the state Connected stay as they are; the Response
\* is an Error of kind CommandFailed with that message.
RootPasswordMissing ==
  /\ [](\A h \in registered : RootWithoutPassword(h) => wpc[h] # "exec")
  /\ [][\A h \in registered :
         (RootWithoutPassword(h) /\ IsSome(session[h]) /\ cur'[h] = None)
         => /\ Unwrap(result[h]) =
                 Err("Root password not configured. Use 'audb device add' to set the root password.")
            /\ reply'[Unwrap(cur[h]).client] = Some(Unwrap(result[h]))
            /\ connections'[h].stats.failed_commands
                 = connections[h].stats.failed_commands + 1
            /\ connections'[h].stats.successful_commands
                 = connections[h].stats.successful_commands
            /\ connections'[h].state = connections[h].state
            /\ connections[h].state.tag = "Connected"
            /\ session'[h] = session[h]
            /\ live'[h] = live[h]
            /\ uploaded_scripts'[h] = uploaded_scripts[h]]_vars
  /\ [](\A c \in Clients : \A i \in 1..Len(outbox[c]) :
          (/\ recvd[c][i].command.device \in registered
           /\ Devices[recvd[c][i].command.device].root_password = ""
           /\ \/ recvd[c][i].command.name = "Logs"
              \/ recvd[c][i].command.name = "Shell" /\ recvd[c][i].command.root
           /\ outbox[c][i].result.tag = "Error"
           /\ outbox[c][i].result.message \notin ConnectErrors)
          => /\ outbox[c][i].result.kind = "CommandFailed"
             /\ outbox[c][i].result.message =
                  "Root password not configured. Use 'audb device add' to set the root password.")

\* Two as-root requests were refused one after the other on one Session.
RootPasswordMissingWitness ==
  /\ "B" \in registered
  /\ Len(outbox["c1"]) = 2
  /\ recvd["c1"][1].command = [Cmd("Shell", "B") EXCEPT !.root = TRUE]
  /\ recvd["c1"][2].command = Cmd("Logs", "B")
  /\ AnsweredError("c1", 1, "CommandFailed")
  /\ AnsweredError("c1", 2, "CommandFailed")
  /\ connections["B"].stats.failed_commands = 2
  /\ connections["B"].stats.connect_attempts = 1
  /\ connections["B"].state.tag = "Connected"
  /\ IsSome(session["B"])

\* The devices of the configuration that are disabled.
DisabledDevices == Hosts \ cfg.devices

\* C25: every operation for a disabled device is refused with an Error of
\* kind DeviceDisconnected; no connection to the device is opened and nothing
\* is executed on it, and the device stays disabled.
DisabledRefuses ==
  /\ \A h \in DisabledDevices :
       /\ session[h] = None
       /\ live[h] = {}
       /\ cur[h] = None
       /\ queue[h] = << >>
  /\ \A c \in Clients : \A i \in 1..Len(outbox[c]) :
       recvd[c][i].command.device \in DisabledDevices
         => AnsweredError(c, i, "DeviceDisconnected")

\* No DeviceConnection is ever in the state Disabled, and no Response has
\* the kind DeviceDisconnected.
NeverDisabled ==
  /\ \A h \in registered : connections[h].state.tag # "Disabled"
  /\ \A c \in Clients : \A i \in 1..Len(outbox[c]) :
       outbox[c][i].result.kind # "DeviceDisconnected"

\* C26: after each request a worker has processed, stats.last_error is set
\* exactly when the operation of that request failed: a failure sets it and a
\* later success leaves none.
LastErrorTracksLastOp ==
  [][\A h \in registered :
       (IsSome(cur[h]) /\ cur'[h] = None)
       => (IsSome(connections'[h].stats.last_error) <=> ~Unwrap(result[h]).ok)]_vars

\* A failed operation or connect records its error as last_error, and a
\* successful operation leaves last_error as it was.
LastErrorSticks ==
  [][\A h \in registered :
       (IsSome(cur[h]) /\ cur'[h] = None)
       => connections'[h].stats.last_error =
            IF Unwrap(result[h]).ok THEN connections[h].stats.last_error
            ELSE Some(Unwrap(result[h]).error)]_vars

\* s with every ' replaced by '\'', from its i-th character on
RECURSIVE SubstitutedFrom(_, _)
SubstitutedFrom(s, i) ==
  IF i > Len(s) THEN << >>
  ELSE (IF s[i] = "'" THEN << "'", "\\", "'", "'" >> ELSE << s[i] >>)
       \o SubstitutedFrom(s, i + 1)
Substituted(s) == SubstitutedFrom(s, 1)

\* The words a POSIX shell reads from a command line: inside single quotes
\* every character is literal, outside them a backslash quotes the next
\* character and a space ends a word.
RECURSIVE sh_words(_, _, _, _, _, _)
sh_words(text, i, quoted, word, has, words) ==
  IF i > Len(text) THEN (IF has THEN Append(words, word) ELSE words)
  ELSE IF quoted
  THEN (IF text[i] = "'" THEN sh_words(text, i + 1, FALSE, word, TRUE, words)
        ELSE sh_words(text, i + 1, TRUE, Append(word, text[i]), TRUE, words))
  ELSE IF text[i] = "'" THEN sh_words(text, i + 1, TRUE, word, TRUE, words)
  ELSE IF text[i] = "\\" /\ i < Len(text)
  THEN sh_words(text, i + 2, FALSE, Append(word, text[i + 1]), TRUE, words)
  ELSE IF text[i] = " "
  THEN sh_words(text, i + 1, FALSE, << >>, FALSE, IF has THEN Append(words, word) ELSE words)
  ELSE sh_words(text, i + 1, FALSE, Append(word, text[i]), TRUE, words)
Words(text) == sh_words(text, 1, FALSE, << >>, FALSE, << >>)

\* The shell reads q, between the quote that ends open and a closing quote,
\* as s: the word that quote opened, and no further word.
ReadsBack(open, q, s) ==
  LET words == Words(open \o q \o << "'" >>) IN
  /\ Len(words) = Len(Words(SubSeq(open, 1, Len(open) - 1))) + 1
  /\ words[Len(words)] = s

\* C27: in the command line of the root wrapper and in that of a Logs
\* request, the text put between the single quotes for an argument s is s
\* with every ' replaced by '\'', which is s itself when s has no '; the
\* shell reads each quoted argument back as s, as one word.
EscapeCorrect ==
  /\ IsSome(built.devel_su) =>
       LET line == Unwrap(built.devel_su) IN
       /\ line = EchoHead \o Substituted(built.password) \o DevelSuMid
                   \o Substituted(built.command) \o << "'" >>
       /\ (\A i \in 1..Len(built.password) : built.password[i] # "'")
            => SubSeq(line, Len(EchoHead) + 1, Len(EchoHead) + Len(built.password))
                 = built.password
       /\ ReadsBack(EchoHead, Substituted(built.password), built.password)
       /\ ReadsBack(Tail(DevelSuMid), Substituted(built.command), built.command)
  /\ IsSome(built.journalctl) =>
       LET line == Unwrap(built.journalctl) IN
       /\ line = JournalHead
                   \o UnitFlag \o Substituted(Unwrap(built.unit)) \o << "'" >>
                   \o SinceFlag \o Substituted(Unwrap(built.since)) \o << "'" >>
                   \o OutputOptions
                   \o GrepPipe \o Substituted(Unwrap(built.grep)) \o << "'" >>
       /\ ReadsBack(UnitFlag, Substituted(Unwrap(built.unit)), Unwrap(built.unit))
       /\ ReadsBack(SinceFlag, Substituted(Unwrap(built.since)), Unwrap(built.since))
       /\ ReadsBack(GrepPipe, Substituted(Unwrap(built.grep)), Unwrap(built.grep))

\* Both command lines were built from a credential a'b and a command
\* that ends in a backslash and a quote.
EscapeCorrectWitness ==
  /\ built.password = << "'", "a" >>
  /\ built.command = << "\\", "'" >>
  /\ IsSome(built.devel_su)
  /\ IsSome(built.journalctl)
  /\ Len(Unwrap(built.devel_su)) = Len(EchoHead) + 5 + Len(DevelSuMid) + 5 + 1

\* The nine keywords of a connectivity failure
ConnectivityKeywords ==
  { << "c","o","n","n","e","c","t","i","o","n" >>,
    << "d","i","s","c","o","n","n","e","c","t" >>,
    << "t","i","m","e","o","u","t" >>,
    << "b","r","o","k","e","n"," ","p","i","p","e" >>,
    << "r","e","s","e","t"," ","b","y"," ","p","e","e","r" >>,
    << "c","h","a","n","n","e","l" >>,
    << "s","e","s","s","i","o","n" >>,
    << "e","o","f" >>,
    << "c","l","o","s","e","d" >> }

\* The lowercased text holds a keyword at some position.
HoldsKeyword(text) ==
  \E k \in ConnectivityKeywords : \E i \in 1..Len(text) :
    /\ i + Len(k) - 1 <= Len(text)
    /\ \A j \in 1..Len(k) : LowerChar(text[i + j - 1]) = k[j]

\* The messages named as connectivity failures, and one named as none
ClassifierExamples ==
  { [text |-> << "c","o","n","n","e","c","t","i","o","n"," ","r","e","f","u","s","e","d" >>, connectivity |-> TRUE],
    [text |-> << "b","r","o","k","e","n"," ","p","i","p","e" >>, connectivity |-> TRUE],
    [text |-> << "e","o","f" >>, connectivity |-> TRUE],
    [text |-> << "s","e","s","s","i","o","n"," ","c","l","o","s","e","d" >>, connectivity |-> TRUE],
    [text |-> << "c","h","a","n","n","e","l"," ","0",":"," ","o","p","e","n"," ","f","a","i","l","e","d" >>, connectivity |-> TRUE],
    [text |-> << "r","e","s","e","t"," ","b","y"," ","p","e","e","r" >>, connectivity |-> TRUE],
    [text |-> << "t","i","m","e","o","u","t" >>, connectivity |-> TRUE],
    [text |-> << "c","o","m","m","a","n","d"," ","n","o","t"," ","f","o","u","n","d" >>, connectivity |-> FALSE] }

\* C28: the classifier is true exactly for the messages whose lowercased text
\* contains one of connection, disconnect, timeout, broken pipe, reset by
\* peer, channel, session, eof, closed: true for "connection refused",
\* "broken pipe", "eof", "session closed", "channel 0: open failed", "reset by
\* peer" and "timeout", false for "command not found".
ClassifierExact ==
  IsSome(built.is_connection) =>
    /\ Unwrap(built.is_connection) = HoldsKeyword(built.error)
    /\ \A ex \in ClassifierExamples :
         built.error = ex.text => Unwrap(built.is_connection) = ex.connectivity

\* "session closed" was classified as a connectivity failure.
ClassifierExactWitness ==
  /\ built.error = << "s","e","s","s","i","o","n"," ","c","l","o","s","e","d" >>
  /\ built.is_connection = Some(TRUE)

\* C29: a Ping is answered at once with Success{Lines = ["pong"]} under the
\* id of the request, whatever the pool holds (no device, a device that is
\* Disconnected, Errored or Connected); nothing enters a channel and no
\* worker, connection record, statistic or Session changes.
PingIsPure ==
  [][\A c \in Clients :
       LET request == Head(inbox[c]) IN
       (Receives(c) /\ request.command.name = "Ping")
       => /\ Len(outbox'[c]) = Len(outbox[c]) + 1
          /\ Written(c).id = request.id
          /\ Written(c).result.tag = "Success"
          /\ Written(c).result.variant = "Lines"
          /\ Written(c).result.output = << "pong" >>
          /\ queue' = queue
          /\ workerVars' = workerVars
          /\ connections' = connections
          /\ registered' = registered
          /\ lock' = lock
          /\ live' = live
          /\ reply' = reply
          /\ hist' = hist]_vars

\* The second request of the connection, a Ping, was answered with pong
\* after a first one had failed to connect and left the device Errored.
PingIsPureWitness ==
  /\ "A" \in registered
  /\ connections["A"].state.tag = "Errored"
  /\ Len(recvd["c1"]) = 2
  /\ recvd["c1"][2].command.name = "Ping"
  /\ Len(outbox["c1"]) = 2
  /\ outbox["c1"][1].result.tag = "Error"
  /\ outbox["c1"][2].result.output = << "pong" >>

\* A Ping was answered with pong by a pool that holds no device.
PingAloneWitness ==
  /\ cfg.devices = {}
  /\ registered = {}
  /\ Len(recvd["c1"]) = 1
  /\ recvd["c1"][1].command.name = "Ping"
  /\ Len(outbox["c1"]) = 1
  /\ outbox["c1"][1].result.output = << "pong" >>

\* The worker of h is between the start of a connect and its outcome.
Attempting(h) ==
  wpc[h] \in {"connecting", "connect_done", "lock_connected", "cs_connected",
              "lock_errored", "cs_errored"}

\* C30: a connect is attempted only for a request the worker has received
\* and holds no Session for, at most once per request; a request received
\* without a Session goes to its one attempt at once, whatever the clock and
\* the recorded retry time; after a successful attempt the operation of the
\* same request runs on the Session just opened; after a failed one the
\* request is answered with the connect error and its operation never runs.
ConnectPerRequest ==
  [][\A h \in registered :
       LET attempts == connections[h].stats.connect_attempts IN
       /\ connections'[h].stats.connect_attempts # attempts
            => /\ connections'[h].stats.connect_attempts = attempts + 1
               /\ IsSome(cur[h]) /\ cur'[h] = cur[h]
               /\ session[h] = None
               /\ hist[h].attempts = 0 /\ hist'[h].attempts = 1
               /\ now' = now
               /\ wpc'[h] = "connecting"
       /\ (cur[h] = None /\ IsSome(cur'[h]) /\ session[h] = None)
            => /\ wpc'[h] = "lock_connecting"
               /\ hist'[h].cold
       /\ (wpc[h] = "lock_connecting" /\ lock = "free") => ENABLED WorkerLock(h)
       /\ wpc[h] = "cs_connecting" => ENABLED EstablishConnection(h)
       /\ (IsSome(cur[h]) /\ cur'[h] = None)
            => /\ hist[h].attempts <= 1
               /\ hist[h].cold => hist[h].attempts = 1
       /\ (wpc[h] = "cs_connected" /\ wpc'[h] # wpc[h])
            => /\ cur'[h] = cur[h]
               /\ session'[h] = Some(attempts)
               /\ hist[h].attempts = 1
               /\ wpc'[h] = IF RootRefused(Unwrap(cur[h]).operation, Devices[h].root_password)
                             THEN "lock_result"
                             ELSE IF Unwrap(cur[h]).operation.kind = "EnsureScript"
                             THEN "es_stat" ELSE "exec"
               /\ reply' = reply
       /\ (wpc[h] = "cs_errored" /\ wpc'[h] # wpc[h])
            => /\ wpc'[h] = "recv"
               /\ cur'[h] = None
               /\ session'[h] = None
               /\ hist[h].attempts = 1
               /\ \E e \in ConnectErrors :
                    reply'[Unwrap(cur[h]).client] = Some(Err(e))
               /\ connections'[h].stats.successful_commands
                    = connections[h].stats.successful_commands
               /\ connections'[h].stats.failed_commands
                    = connections[h].stats.failed_commands
       /\ wpc[h] \in {"exec", "es_stat", "es_upload", "es_chmod"}
            => /\ IsSome(session[h])
               /\ hist[h].attempts = 1 => session[h] = Some(attempts)
       /\ Attempting(h) => hist[h].attempts = 1]_vars

\* A first request failed to connect and was answered; the connect of the
\* second one is in flight before the recorded retry time has come.
ConnectPerRequestWitness ==
  /\ wpc["A"] = "connecting"
  /\ hist["A"].dequeued = 2
  /\ hist["A"].fails = 1
  /\ hist["A"].attempts = 1
  /\ connections["A"].stats.connect_attempts = 2
  /\ now < hist["A"].failed_at + INITIAL_BACKOFF_MS
  /\ Len(outbox["c1"]) = 1
  /\ outbox["c1"][1].result.tag = "Error"

\* The operation of a request runs on the Session that the request's own
\* connect opened, after an earlier request had failed to connect.
ConnectThenRunWitness ==
  /\ wpc["A"] = "exec"
  /\ hist["A"].dequeued = 2
  /\ hist["A"].attempts = 1
  /\ session["A"] = Some(2)

\* The worker of h is at a call of execute_operation or past it.
Running(h) == wpc[h] \in {"exec", "es_stat", "es_upload", "es_chmod", "lock_result"}

\* C31: the health check starts only when a request is received, a Session
\* exists and more than HEALTH_CHECK_INTERVAL has passed since
\* last_health_check; when it succeeds last_health_check becomes the current
\* time and the request runs on the same Session; when it fails the Session,
\* connected_since and uploaded_scripts are cleared and the connect of the
\* same request follows.
HealthCheckLazy ==
  [][\A h \in registered :
       /\ (wpc[h] # "health" /\ wpc'[h] = "health")
            => /\ wpc[h] = "recv"
               /\ cur[h] = None /\ IsSome(cur'[h])
               /\ IsSome(session[h]) /\ session'[h] = session[h]
               /\ IsSome(last_health_check[h])
               /\ now - Unwrap(last_health_check[h]) > HEALTH_CHECK_INTERVAL
       /\ (wpc[h] = "health" /\ wpc'[h] # "health")
            => /\ cur'[h] = cur[h]
               /\ connections'[h] = connections[h]
               /\ \/ /\ wpc'[h] \in {"exec", "es_stat", "lock_result"}
                     /\ last_health_check'[h] = Some(now)
                     /\ session'[h] = session[h]
                     /\ connected_since'[h] = connected_since[h]
                     /\ uploaded_scripts'[h] = uploaded_scripts[h]
                  \/ /\ wpc'[h] = "lock_connecting"
                     /\ session'[h] = None
                     /\ connected_since'[h] = None
                     /\ uploaded_scripts'[h] = {}
       /\ (Attempting(h) /\ ~hist[h].cold)
            => /\ IsSome(cur[h])
               /\ hist[h].lost >= 1
               /\ uploaded_scripts[h] = {}]_vars

\* The health check of the second request failed and the connect of that
\* request is in flight.
HealthCheckLazyWitness ==
  /\ wpc["A"] = "connecting"
  /\ hist["A"].dequeued = 2
  /\ ~hist["A"].cold
  /\ hist["A"].lost = 1
  /\ connections["A"].stats.connect_attempts = 2
  /\ now > HEALTH_CHECK_INTERVAL

\* The health check of the second request succeeded and the request runs on
\* the Session of the first.
HealthCheckPassedWitness ==
  /\ wpc["A"] = "exec"
  /\ hist["A"].dequeued = 2
  /\ session["A"] = Some(1)
  /\ last_health_check["A"] = Some(now)
  /\ now > HEALTH_CHECK_INTERVAL

\* The changes of the recorded state the state diagram names
DiagramEdges ==
  { << "Disconnected", "Connecting" >>, << "Errored", "Connecting" >>,
    << "Connecting", "Connected" >>, << "Connecting", "Errored" >>,
    << "Connected", "Disconnected" >> }

\* Every change of a recorded state is one of these.
ChangesAlong(edges) ==
  \A h \in registered :
    connections'[h].state.tag # connections[h].state.tag
    => << connections[h].state.tag, connections'[h].state.tag >> \in edges

\* C32: the recorded ConnectionState of a worker changes only from
\* Disconnected to Connecting, from Errored to Connecting, from Connecting to
\* Connected, from Connecting to Errored and from Connected to Disconnected.
StateDiagram == [][ChangesAlong(DiagramEdges)]_vars

\* The recorded state changes along the diagram or from Connected to
\* Connecting, and the latter only after a failed health check.
StateDiagramWithHealth ==
  [][/\ ChangesAlong(DiagramEdges \cup { << "Connected", "Connecting" >> })
     /\ \A h \in registered :
          (connections[h].state.tag = "Connected"
           /\ connections'[h].state.tag = "Connecting")
          => ~hist[h].cold /\ hist[h].lost >= 1]_vars

\* What a step adds to the counters of h
Added(h, counter) == connections'[h].stats[counter] - connections[h].stats[counter]

\* C33: no step lowers a counter and a step raises at most one of them, by
\* one: connect_attempts exactly when a connect is started, one of
\* successful_commands and failed_commands exactly when the result of an
\* executed operation is recorded, the one that tells its outcome; the step
\* that answers a request with a failed connect, and the steps of a health
\* check, raise neither of the two.
StatsCounters ==
  [][\A h \in registered :
       LET connects == Added(h, "connect_attempts")
           successes == Added(h, "successful_commands")
           failures == Added(h, "failed_commands") IN
       /\ connects \in {0, 1} /\ successes \in {0, 1} /\ failures \in {0, 1}
       /\ connects + successes + failures <= 1
       /\ connects = 1 <=> (wpc[h] = "cs_connecting" /\ wpc'[h] = "connecting")
       /\ successes + failures = 1 <=> (wpc[h] = "cs_result" /\ wpc'[h] = "recv")
       /\ (wpc[h] = "cs_result" /\ wpc'[h] = "recv")
            => successes = (IF Unwrap(result[h]).ok THEN 1 ELSE 0)
       /\ (wpc[h] = "cs_errored" /\ wpc'[h] = "recv") => successes + failures = 0
       /\ (wpc[h] = "health" \/ wpc'[h] = "health") => successes + failures = 0
       /\ (IsSome(cur[h]) /\ cur'[h] = None)
            => successes + failures = (IF wpc[h] = "cs_result" THEN 1 ELSE 0)]_vars

\* Two connects, the second after a failed health check, one successful and
\* one failed command.
StatsCountersWitness ==
  /\ "A" \in registered
  /\ connections["A"].stats.connect_attempts >= 2
  /\ connections["A"].stats.successful_commands = 1
  /\ connections["A"].stats.failed_commands = 1
  /\ hist["A"].lost >= 1
  /\ now > HEALTH_CHECK_INTERVAL

\* The arguments of a Logs request that execute_logs refuses first
LogsArgsRefused(command) ==
  \/ command.lines = 0
  \/ command.kernel /\ command.unit # << >>

\* C34: a Logs request with lines = 0, or with kernel and a unit, is answered
\* with an Error at once and nothing is sent to the worker, whatever clear and
\* force are; every other Logs request without clear sends one command to
\* the worker, as root, and when its reply comes the Response is written and
\* no further operation is sent.
LogsValidated ==
  [][\A c \in Clients :
       /\ LET request == Head(inbox[c]) IN
          (/\ Receives(c)
           /\ request.command.name = "Logs"
           /\ request.command.device \in registered)
          => /\ LogsArgsRefused(request.command)
                  => /\ queue' = queue
                     /\ hist' = hist
                     /\ workerVars' = workerVars
                     /\ connections' = connections
                     /\ Len(outbox'[c]) = Len(outbox[c]) + 1
                     /\ Written(c).id = request.id
                     /\ Written(c).result.tag = "Error"
             /\ (~LogsArgsRefused(request.command) /\ ~request.command.clear)
                  => /\ outbox' = outbox
                     /\ hist'[request.command.device].enqueued
                          = hist[request.command.device].enqueued + 1
                     /\ \E op \in {queue'[request.command.device]
                                      [Len(queue'[request.command.device])].operation} :
                          /\ Sends(c, request.command.device, op)
                          /\ op.kind = "Command"
                          /\ op.as_root
       /\ (/\ Replying(c)
           /\ Unwrap(hreq[c]).command.name = "Logs"
           /\ ~Unwrap(hreq[c]).command.clear)
          => /\ queue' = queue
             /\ hist' = hist
             /\ hstep[c] = 1
             /\ Len(outbox'[c]) = Len(outbox[c]) + 1
             /\ Written(c).id = Unwrap(hreq[c]).id]_vars

\* A Logs request with clear, force and lines = 0 was refused and the worker
\* received nothing.
LogsValidatedWitness ==
  /\ Len(recvd["c1"]) = 1
  /\ recvd["c1"][1].command.clear /\ recvd["c1"][1].command.force
  /\ recvd["c1"][1].command.lines = 0
  /\ Len(outbox["c1"]) = 1
  /\ outbox["c1"][1].result.tag = "Error"
  /\ hist["A"].enqueued = 0

\* A Logs request with kernel, no unit and one line was answered after one
\* command of the worker.
LogsRunWitness ==
  /\ Len(recvd["c1"]) = 1
  /\ recvd["c1"][1].command.kernel /\ ~recvd["c1"][1].command.clear
  /\ recvd["c1"][1].command.lines = 1
  /\ Len(outbox["c1"]) = 1
  /\ outbox["c1"][1].result.tag = "Success"
  /\ hist["A"].enqueued = 1

\* The decimal digits of the numbers of lines the requests carry
LinesText(n) ==
  CASE n = 1 -> << "1" >>
    [] n = 10 -> << "1","0" >>
    [] n = 100 -> << "1","0","0" >>
    [] n = 4096 -> << "4","0","9","6" >>

\* The command line of the grammar, with this text in the place of the priority
Grammar(priority_text) ==
  Journalctl
  \o (IF built.kernel THEN << " ","-","k" >> ELSE << >>)
  \o << " ","-","n"," " >> \o LinesText(built.lines)
  \o (IF IsSome(built.priority) THEN << " ","-","p"," " >> \o priority_text ELSE << >>)
  \o (IF IsSome(built.unit)
      THEN UnitFlag \o Substituted(Unwrap(built.unit)) \o << "'" >> ELSE << >>)
  \o (IF IsSome(built.since)
      THEN SinceFlag \o Substituted(Unwrap(built.since)) \o << "'" >> ELSE << >>)
  \o OutputOptions
  \o (IF IsSome(built.grep)
      THEN GrepPipe \o Substituted(Unwrap(built.grep)) \o << "'" >> ELSE << >>)

\* C35: the command line of a Logs request without clear is journalctl, -k
\* iff kernel, -n and the lines, -p and the priority iff given, -u '...',
\* --since '...', --no-pager --no-hostname and | grep '...' iff given, in this
\* order, and every string of the request in it, the priority too, has each
\* of its ' replaced by '\''.
JournalGrammar ==
  IsSome(built.journalctl) =>
    Unwrap(built.journalctl)
      = Grammar(IF IsSome(built.priority) THEN Substituted(Unwrap(built.priority)) ELSE << >>)

\* The command line follows the grammar with the priority as the request
\* carries it, and the shell reads back unit, since and grep as one word each.
JournalGrammarRawPriority ==
  IsSome(built.journalctl) =>
    /\ Unwrap(built.journalctl)
         = Grammar(IF IsSome(built.priority) THEN Unwrap(built.priority) ELSE << >>)
    /\ IsSome(built.unit)
         => ReadsBack(UnitFlag, Substituted(Unwrap(built.unit)), Unwrap(built.unit))
    /\ IsSome(built.since)
         => ReadsBack(SinceFlag, Substituted(Unwrap(built.since)), Unwrap(built.since))
    /\ IsSome(built.grep)
         => ReadsBack(GrepPipe, Substituted(Unwrap(built.grep)), Unwrap(built.grep))

\* The shell reads the priority back as one word, the priority of the request.
PriorityReadsBack ==
  (IsSome(built.journalctl) /\ IsSome(built.priority))
  => Words(PriorityFlag \o Unwrap(built.priority))
       = << << "-","p" >>, Unwrap(built.priority) >>

\* The logical name of the script a command runs, if it runs one
ScriptRun(command) ==
  CASE command = "python3 tap" -> Some("tap")
    [] command = "python3 swipe" -> Some("swipe")
    [] OTHER -> None

\* C36: whenever a worker executes the script command of a request, the
\* logical name of the script is in uploaded_scripts: the script was ensured
\* in the Session that executes the command.
ScriptEnsuredAtExec ==
  \A h \in registered :
    (wpc[h] = "exec" /\ Unwrap(cur[h]).operation.kind = "Command")
    => LET script == ScriptRun(Unwrap(cur[h]).operation.command) IN
       IsSome(script) => Unwrap(script) \in uploaded_scripts[h]

\* Without a loss of the Session between the EnsureScript of a request and
\* its command, the script of the command is in uploaded_scripts.
ScriptEnsuredUnlessLost ==
  \A h \in registered :
    (wpc[h] = "exec" /\ Unwrap(cur[h]).operation.kind = "Command" /\ hist[h].lost = 0
     /\ hist[h].fails = 0 /\ connections[h].stats.connect_attempts = 1)
    => LET script == ScriptRun(Unwrap(cur[h]).operation.command) IN
       IsSome(script) => Unwrap(script) \in uploaded_scripts[h]

\* C37: whatever the interleaving of concurrent Push, Install and Pull
\* requests, the bytes an upload sent are the bytes of the request it served,
\* the bytes a Pull returned are those its own Download fetched, and no
\* request found its temp file overwritten or removed by another request.
TempIsolated ==
  /\ \A t \in temp.uploads \cup temp.pulls : t.bytes = t.owner
  /\ temp.missing = {}

\* What does hold: a transfer only ever carries the bytes of a request that
\* used the same temp path, and a file is only found missing by a request
\* whose path another request of the run shares.
TempPathOf(request) ==
  local_temp(file_name(recvd[request.client][request.n].command.path))
TempSharedByName ==
  /\ \A t \in temp.uploads \cup temp.pulls : TempPathOf(t.bytes) = TempPathOf(t.owner)
  /\ \A m \in temp.missing :
       \E c \in Clients : \E n \in 1..Len(recvd[c]) :
         /\ [client |-> c, n |-> n] # m
         /\ recvd[c][n].command.name \in {"Push", "Install", "Pull"}
         /\ TempPathOf([client |-> c, n |-> n]) = TempPathOf(m)

\* Two requests were in flight at once under one temp path, and a transfer
\* carried the other request's bytes.
TempCrossedWitness ==
  \E t \in temp.uploads \cup temp.pulls : t.bytes.client # t.owner.client

\* A request found the file it had written, or downloaded, already removed.
TempMissingWitness == temp.missing # {}

\* C38: an EnsureScript on one device never fails because of an
\* EnsureScript for the same script running on another device: no worker
\* finds the local temp file of its script gone, and no EnsureScript ends
\* with the error of the missing file.
EnsureScriptAlone ==
  /\ temp.gone = {}
  /\ \A h \in registered :
       ~(/\ IsSome(cur[h]) /\ Unwrap(cur[h]).operation.kind = "EnsureScript"
         /\ IsSome(result[h]) /\ ~Unwrap(result[h]).ok
         /\ Unwrap(result[h]).error = "No such file or directory")

\* What does hold: a worker only finds its file gone after another worker
\* ensured the same script, uploading it, in the same run.
EnsureScriptSharedTemp ==
  \A h \in temp.gone : \E g \in registered \ {h} : hist[g].ensured > 0

\* Two workers were uploading the same script at once, and one of them
\* found the file removed by the other.
EnsureScriptGoneWitness ==
  \E h \in temp.gone :
    /\ IsSome(result[h]) /\ ~Unwrap(result[h]).ok
    /\ Unwrap(result[h]).error = "No such file or directory"

\* The device entries of the ServerStatus replies written so far and of the
\* replies being assembled.
StatusReplies ==
  { p \in UNION {{<<c, k>> : k \in 1..Len(outbox[c])} : c \in Clients} :
      /\ outbox[p[1]][p[2]].result.tag = "Success"
      /\ outbox[p[1]][p[2]].result.variant = "Status" }
StatusEntries ==
  UNION {{outbox[p[1]][p[2]].result.output[i] :
            i \in 1..Len(outbox[p[1]][p[2]].result.output)} : p \in StatusReplies}

\* C39: in every ServerStatus reply the state and the stats of a device
\* entry describe one moment of the worker: an entry reported as
\* Connecting{attempt = n} carries stats.connect_attempts = n.
StatusOneMoment ==
  \A e \in StatusEntries :
    e.state.tag = "Connecting" => e.state.attempt = e.stats.connect_attempts

\* What does hold: in the pool map a recorded Connecting{attempt = n} goes
\* with connect_attempts = n, and an entry's stats are never older than its
\* state.
ConnectingCountsAttempt ==
  \A h \in registered :
    connections[h].state.tag = "Connecting" =>
      connections[h].state.attempt = connections[h].stats.connect_attempts
StatusStatsNotOlder ==
  \A e \in StatusEntries :
    e.state.tag = "Connecting" => e.state.attempt <= e.stats.connect_attempts

\* A reply reports a device as Connecting.
StatusConnectingWitness ==
  \E e \in StatusEntries : e.state.tag = "Connecting"

\* The values the claim allows: 1, 2, 4, 8, 16, 32 and 60 seconds.
BackoffValues == {1000, 2000, 4000, 8000, 16000, 32000, 60000}

\* C40: a worker's backoff starts at 1 s and is always one of 1, 2, 4, 8, 16,
\* 32 or 60 s; between two requests it is min(1 s * 2^k, 60 s) after k
\* consecutive failed connects, it is 1 s whenever a connect has succeeded,
\* and only the result of a connect changes it: operations that fail and
\* health checks leave it alone.
BackoffLadder ==
  /\ \A h \in Hosts : current_backoff_ms[h] = 1000
  /\ [][\A h \in Hosts :
          /\ current_backoff_ms'[h] \in BackoffValues
          /\ current_backoff_ms'[h] <= 60000
          /\ wpc'[h] = "recv" =>
               current_backoff_ms'[h] = Min(1000 * 2^(hist'[h].fails), 60000)
          /\ IsSome(session'[h]) => current_backoff_ms'[h] = 1000
          /\ current_backoff_ms'[h] # current_backoff_ms[h] =>
               \/ wpc[h] = "connect_done" /\ Unwrap(result[h]).ok
               \/ wpc[h] = "cs_errored" /\ ~Unwrap(result[h]).ok
     ]_vars

\* The backoff has reached its cap after seven failed connects in a row.
BackoffLadderWitness ==
  /\ wpc["A"] = "recv"
  /\ hist["A"].fails = 7
  /\ current_backoff_ms["A"] = 60000

\* A connect succeeded after failed ones, an operation then failed, and the
\* backoff is 1 s.
BackoffResetWitness ==
  /\ "A" \in registered
  /\ wpc["A"] = "recv"
  /\ connections["A"].stats.connect_attempts >= 3
  /\ connections["A"].stats.failed_commands >= 1
  /\ hist["A"].fails = 0
  /\ current_backoff_ms["A"] = 1000

\* A health check failed and the backoff is what it was.
BackoffHealthWitness ==
  /\ "A" \in registered
  /\ wpc["A"] = "lock_connecting"
  /\ hist["A"].lost >= 1
  /\ connections["A"].stats.failed_commands = 0
  /\ connections["A"].stats.connect_attempts >= 2
  /\ current_backoff_ms["A"] = 1000

====
